---- MODULE Spec2Model ----
(***************************************************************************)
(* Jacobin VM: the frame-stack bytecode interpreter (package jvm).         *)
(*                                                                         *)
(* A runtime value is a Go interface{} holding an int64 or a float64 (or   *)
(* nil).  A 64-bit word is modelled by the set of the positions of its     *)
(* one-bits in two's complement (bit 0 is the least significant), so that  *)
(* wrap-around, masking and shifts are computed at their real width.       *)
(***************************************************************************)
EXTENDS Integers, Sequences, FiniteSets, TLC

\* ------------------------------------------------------------------------
\* 64-bit words
\* ------------------------------------------------------------------------

WordBits == 0..63

\* 2^n for 0 <= n <= 30
PowersOf2 ==
    <<1, 2, 4, 8, 16, 32, 64, 128, 256, 512, 1024, 2048, 4096, 8192, 16384, 32768,
      65536, 131072, 262144, 524288, 1048576, 2097152, 4194304, 8388608, 16777216,
      33554432, 67108864, 134217728, 268435456, 536870912, 1073741824>>
Pow2(n) == PowersOf2[n + 1]

\* int64(n) for a number n in the 32-bit signed range
W(n) == {i \in 0..30 : (n \div Pow2(i)) % 2 = 1} \cup (IF n < 0 THEN 31..63 ELSE {})

\* the value of the only element of a one-element set; TLC computes v before e
\* in Only({e : x \in {v}})
Only(S) == CHOOSE x \in S : TRUE

\* the bits of a byte, and the byte a set of bit positions within 0..7 stands for
BitsOf == [v \in 0..255 |-> {i \in 0..7 : (v \div Pow2(i)) % 2 = 1}]
ByteOf == [s \in SUBSET (0..7) |-> CHOOSE v \in 0..255 : BitsOf[v] = s]

\* the k-th byte of a word
Limb(a, k) == ByteOf[{i - 8 * k : i \in a \cap ((8 * k)..(8 * k + 7))}]

\* the number whose one-bits are s, a subset of 0..30
SumPow2(s) ==
    (Limb(s, 0) + 256 * Limb(s, 1)) + (65536 * Limb(s, 2) + 16777216 * Limb(s, 3))

\* a word whose value lies in the 32-bit signed range
FitsInt32(w) == (31..63) \subseteq w \/ (31..63) \cap w = {}

\* the number a word in the 32-bit signed range stands for
N(w) == IF 31 \in w THEN (SumPow2(w \cap (0..30)) - 2147483647) - 1
        ELSE SumPow2(w \cap (0..30))

\* Go: int64(int32(x)), the low 32 bits sign-extended
Int32(w) == (w \cap (0..31)) \cup (IF 31 \in w THEN 32..63 ELSE {})

\* the little-endian bytes of a word, and the word of 8 bytes
Limbs(a) == <<Limb(a, 0), Limb(a, 1), Limb(a, 2), Limb(a, 3),
             Limb(a, 4), Limb(a, 5), Limb(a, 6), Limb(a, 7)>>
FromLimbs(l) == UNION {{i + 8 * (k - 1) : i \in BitsOf[l[k]]} : k \in 1..8}

\* the carry into byte k of a sum whose byte sums are s: it comes from a lower
\* byte that overflows, or from cin, through bytes that sum to 255
Carry(s, cin, k) ==
    IF \/ \E j \in 1..(k - 1) : s[j] >= 256 /\ \A m \in (j + 1)..(k - 1) : s[m] = 255
       \/ cin = 1 /\ \A m \in 1..(k - 1) : s[m] = 255
    THEN 1 ELSE 0

\* a + b + cin modulo 2^64, byte by byte
AddC(a, b, cin) ==
    Only({FromLimbs([k \in 1..8 |-> (s[k] + Carry(s, cin, k)) % 256]) :
             s \in {[k \in 1..8 |-> la[k] + lb[k]] : la \in {Limbs(a)}, lb \in {Limbs(b)}}})

\* Go: a + b on int64 (wraps modulo 2^64)
Add64(a, b) == AddC(a, b, 0)

\* Go: -a on int64
Neg64(a) == AddC({}, WordBits \ a, 1)

\* Go: a - b on int64
Sub64(a, b) == AddC(a, WordBits \ b, 1)

\* Go: a << s, 0 <= s <= 63
Shl64(a, s) == {i + s : i \in {j \in a : j + s <= 63}}

\* Go: a >> s on uint64 (zero filling)
Shr64(a, s) == {i - s : i \in {j \in a : j >= s}}

\* Go: a >> s on int64 (sign filling)
Sar64(a, s) == Shr64(a, s) \cup (IF 63 \in a THEN (64 - s)..63 ELSE {})

\* column k of the byte products of la and lb, with the carry of the columns below
RECURSIVE Column(_, _, _)
Column(la, lb, k) ==
    IF k = 0 THEN 0
    ELSE Only({c \div 256 : c \in {Column(la, lb, k - 1)}})
         + ((la[1] * lb[k] + (IF k >= 2 THEN la[2] * lb[k - 1] ELSE 0))
            + ((IF k >= 3 THEN la[3] * lb[k - 2] ELSE 0)
               + (IF k >= 4 THEN la[4] * lb[k - 3] ELSE 0)))
         + (((IF k >= 5 THEN la[5] * lb[k - 4] ELSE 0)
             + (IF k >= 6 THEN la[6] * lb[k - 5] ELSE 0))
            + ((IF k >= 7 THEN la[7] * lb[k - 6] ELSE 0)
               + (IF k >= 8 THEN la[8] * lb[k - 7] ELSE 0)))

\* Go: a * b on int64 (wraps modulo 2^64)
Mul64(a, b) ==
    Only({FromLimbs([k \in 1..8 |-> Column(la, lb, k) % 256]) :
             la \in {Limbs(a)}, lb \in {Limbs(b)}})

\* unsigned a < b
ULt64(a, b) ==
    LET d == (a \ b) \cup (b \ a)
    IN d # {} /\ (CHOOSE i \in d : \A j \in d : j <= i) \in b

\* Go: a < b on int64
Lt64(a, b) ==
    IF (63 \in a) # (63 \in b) THEN 63 \in a ELSE ULt64(a, b)

\* one step of the restoring division of unsigned n by d, at bit i of n:
\* qr is <<quotient, remainder>> so far
UDivBit(n, d, i, qr) ==
    LET r1 == Shl64(qr[2], 1) \cup (IF i \in n THEN {0} ELSE {})
    IN IF ULt64(r1, d) THEN <<qr[1], r1>> ELSE <<qr[1] \cup {i}, Sub64(r1, d)>>

\* the steps for the len bits of n from bit hi down
RECURSIVE UDivRange(_, _, _, _, _)
UDivRange(n, d, hi, len, qr) ==
    IF len = 1 THEN UDivBit(n, d, hi, qr)
    ELSE Only({UDivRange(n, d, hi - (len \div 2), len - (len \div 2), half) :
                  half \in {UDivRange(n, d, hi, len \div 2, qr)}})

\* unsigned n / d and n % d, d # {}: the bits above the highest one-bit of n
\* leave quotient and remainder at zero, so the steps start at that bit
UDivMod64(n, d) ==
    IF n = {} THEN <<{}, {}>>
    ELSE Only({UDivRange(x, y, top, top + 1, <<{}, {}>>) :
                  x \in {n}, y \in {d}, top \in {CHOOSE i \in n : \A j \in n : j <= i}})

Abs64(a) == IF 63 \in a THEN Neg64(a) ELSE a

\* Go: a / b on int64, b # 0 (truncated toward zero)
Div64(a, b) ==
    Only({IF (63 \in a) # (63 \in b) THEN Neg64(q) ELSE q :
             q \in {UDivMod64(Abs64(a), Abs64(b))[1]}})

\* Go: a % b on int64, b # 0 (sign of the dividend)
Rem64(a, b) ==
    Only({IF 63 \in a THEN Neg64(r) ELSE r :
             r \in {UDivMod64(Abs64(a), Abs64(b))[2]}})

\* ------------------------------------------------------------------------
\* Runtime values, opcodes and the constant pool
\* ------------------------------------------------------------------------

\* interface{} holding an int64, a float64 (of integral value v) or nil
J(n) == [t |-> "int64", v |-> W(n)]
JW(w) == [t |-> "int64", v |-> w]
F(n) == [t |-> "float64", v |-> W(n)]
FW(w) == [t |-> "float64", v |-> w]
Nil == [t |-> "nil", v |-> {}]

\* object.Null, the sentinel for Java's null, and a pointer to the id-th object
Null == [t |-> "null", v |-> {}]
Ref(id) == [t |-> "object", v |-> {id}]

\* package types: the type tags of an object's fields, as strings of characters
types ==
    [Int |-> <<"I">>, Double |-> <<"D">>, Long |-> <<"J">>, Static |-> <<"X">>,
     StaticDouble |-> <<"X", "D">>, StaticLong |-> <<"X", "J">>]

\* strings.HasPrefix
HasPrefix(t, prefix) == Len(t) >= Len(prefix) /\ SubSeq(t, 1, Len(prefix)) = prefix

\* faulty variant of IsStatic: only the bare tag X counts as static
IsStatic_ExactTag(t) == t = types.Static

\* types.IsStatic: the tag starts with X
IsStatic(t) == HasPrefix(t, types.Static)

\* package opcodes: the JVM's opcode bytes (NEW_ is opcodes.NEW)
opcodes ==
    [NOP |-> 0, LCONST_0 |-> 9, LCONST_1 |-> 10, BIPUSH |-> 16, SIPUSH |-> 17,
     LDC |-> 18, LDC_W |-> 19, LDC2_W |-> 20, ILOAD |-> 21, LLOAD |-> 22,
     LLOAD_0 |-> 30, LLOAD_1 |-> 31, LLOAD_2 |-> 32, LLOAD_3 |-> 33,
     LSTORE |-> 55, LSTORE_0 |-> 63, LSTORE_1 |-> 64, LSTORE_2 |-> 65,
     LSTORE_3 |-> 66,
     PUTSTATIC |-> 179, PUTFIELD |-> 181, INVOKEVIRTUAL |-> 182, NEW_ |-> 187,
     INSTANCEOF |-> 193, POP |-> 87, POP2 |-> 88,
     IADD |-> 96, LADD |-> 97, ISUB |-> 100, LSUB |-> 101, IMUL |-> 104,
     LMUL |-> 105, IDIV |-> 108, LDIV |-> 109, IREM |-> 112, LREM |-> 113,
     INEG |-> 116, LNEG |-> 117, ISHL |-> 120, LSHL |-> 121, ISHR |-> 122,
     LSHR |-> 123, IUSHR |-> 124, LUSHR |-> 125, IAND |-> 126, LAND |-> 127,
     IOR |-> 128, LOR |-> 129, IXOR |-> 130, LXOR |-> 131, L2I |-> 136,
     L2F |-> 137, L2D |-> 138, LCMP |-> 148, GOTO |-> 167, IRETURN |-> 172,
     LRETURN |-> 173, FRETURN |-> 174, DRETURN |-> 175, ARETURN |-> 176,
     RETURN |-> 177, IMPDEP2 |-> 255]

\* a byte that is no opcode (TestInvalidInstruction)
InvalidOpcode == 252

\* the skeletal constant pool of the LDC tests: CpIndex[0] is the dummy entry
CP ==
    <<[Type |-> "Dummy", val |-> Nil],
      [Type |-> "IntConst", val |-> J(25)],
      [Type |-> "FloatConst", val |-> F(25)],
      [Type |-> "DoubleConst", val |-> F(25)],
      [Type |-> "LongConst", val |-> J(25)],
      [Type |-> "ClassRef", val |-> "java/lang/String"],
      [Type |-> "ClassRef", val |-> "java/lang/Object"],
      [Type |-> "FieldRef", val |-> 0],
      [Type |-> "MethodRef", val |-> "java/lang/Object.hashCode()I"]>>

\* Go slices are indexed from 0
At(s, i) == s[i + 1]

\* ------------------------------------------------------------------------
\* Frames: stack-error encoding, push and pop
\* ------------------------------------------------------------------------

\* faulty variant of ErrorBytes: the PC is stored low byte first
ErrorBytes_LittleEndian(f, code) ==
    LET m == IF Len(f.Meth) < 5 THEN <<0, 0, 0, 0, 0>> ELSE f.Meth
        currPC == f.PC % 65536
    IN [i \in 1..Len(m) |->
          CASE i = 1 -> 0
            [] i = 2 -> 255
            [] i = 3 -> code
            [] i = 4 -> currPC % 256
            [] i = 5 -> currPC \div 256
            [] OTHER -> m[i]]

\* the bytes of a code array of at least 5 bytes after a stack error at f.PC
ErrorBytes(f, code) ==
    LET m == IF Len(f.Meth) < 5 THEN <<0, 0, 0, 0, 0>> ELSE f.Meth
        currPC == f.PC % 65536
    IN [i \in 1..Len(m) |->
          CASE i = 1 -> 0
            [] i = 2 -> opcodes.IMPDEP2
            [] i = 3 -> code
            [] i = 4 -> currPC \div 256
            [] i = 5 -> currPC % 256
            [] OTHER -> m[i]]

formatStackOverflowError(f) == [f EXCEPT !.Meth = ErrorBytes(f, 1), !.PC = 0]

formatStackUnderflowError(f) == [f EXCEPT !.Meth = ErrorBytes(f, 2), !.PC = 0]

\* faulty variant of push: no check for a full operand stack
push_NoCheck(f, x) == [f EXCEPT !.TOS = f.TOS + 1, !.OpStack[f.TOS + 2] = x]

\* push(f, x)
push(f, x) ==
    IF f.TOS = Len(f.OpStack) - 1 THEN formatStackOverflowError(f)
    ELSE [f EXCEPT !.TOS = f.TOS + 1, !.OpStack[f.TOS + 2] = x]

\* pop(f): the frame afterwards and the value returned
pop(f) ==
    IF f.TOS = -1 THEN [f |-> formatStackUnderflowError(f), v |-> Nil]
    ELSE [f |-> [f EXCEPT !.TOS = f.TOS - 1], v |-> At(f.OpStack, f.TOS)]

\* frames.CreateFrame: an empty operand stack of the given capacity, PC 0
CreateFrame(meth, opStackSize) ==
    [Meth |-> meth, PC |-> 0, TOS |-> -1, OpStack |-> [i \in 1..opStackSize |-> Nil],
     Locals |-> <<>>]

\* a handler's pops in order, each followed by its type assertion (kinds[i] is
\* "int64", "float64" or "any"); a failed assertion panics and ends the handler
RECURSIVE popAll(_, _, _)
popAll(f, kinds, vs) ==
    IF Len(vs) = Len(kinds) THEN [f |-> f, vs |-> vs, ok |-> TRUE]
    ELSE LET r == pop(f)
             k == kinds[Len(vs) + 1]
         IN IF k # "any" /\ r.v.t # k THEN [f |-> r.f, vs |-> Append(vs, r.v), ok |-> FALSE]
            ELSE popAll(r.f, kinds, Append(vs, r.v))

RECURSIVE pushAll(_, _)
pushAll(f, xs) == IF xs = <<>> THEN f ELSE pushAll(push(f, Head(xs)), Tail(xs))

\* ------------------------------------------------------------------------
\* Arithmetic of the opcode handlers, on 64-bit words
\* ------------------------------------------------------------------------

\* faulty variant of Mask5: an int shift count masked to six bits
Mask5_SixBits(c) == SumPow2(c \cap (0..5))

\* shiftBy & 0x1f and shiftBy & 0x3f
Mask5(c) == SumPow2(c \cap (0..4))
Mask6(c) == SumPow2(c \cap (0..5))

\* faulty variant of IADD: the 64-bit sum is not wrapped to 32 bits
IADD_NoWrap(x, y) == Add64(x, y)

IADD(x, y) == Int32(Add64(x, y))
ISUB(x, y) == Int32(Sub64(x, y))
IMUL(x, y) == Int32(Mul64(x, y))
IDIV(x, y) == Int32(Div64(x, y))
IREM(x, y) == Int32(Rem64(x, y))
INEG(x) == Int32(Neg64(x))
ISHL(x, c) == Int32(Shl64(x, Mask5(c)))
ISHR(x, c) == Sar64(x, Mask5(c))

\* faulty variant of IUSHR: the logical shift of the value's low 32 bits
IUSHR_Logical(x, c) == Int32(Shr64(x \cap (0..31), Mask5(c)))

\* TestIushr: a negative value is negated, then shifted (-200 >>> 3 is 25)
IUSHR(x, c) == Shr64(IF 63 \in x THEN Neg64(x) ELSE x, Mask5(c))

LSHL(x, c) == Shl64(x, Mask6(c))
LSHR(x, c) == Sar64(x, Mask6(c))
LUSHR(x, c) == Shr64(x, Mask6(c))
\* faulty variant of LCMP: the operands compared as unsigned words
LCMP_Unsigned(x, y) == IF x = y THEN W(0) ELSE IF ULt64(x, y) THEN W(-1) ELSE W(1)

LCMP(x, y) == IF x = y THEN W(0) ELSE IF Lt64(x, y) THEN W(-1) ELSE W(1)
L2I(x) == Int32(x)

\* sign-extended operand bytes
SignedByte(b) == IF b >= 128 THEN b - 256 ELSE b
\* faulty variant of SignedShort: the two bytes read as an unsigned number
SignedShort_Unsigned(b1, b2) == b1 * 256 + b2

SignedShort(b1, b2) == IF b1 >= 128 THEN (b1 * 256 + b2) - 65536 ELSE b1 * 256 + b2

\* ------------------------------------------------------------------------
\* The opcode handlers of runFrame
\* ------------------------------------------------------------------------

IntBinary == {opcodes.IADD, opcodes.ISUB, opcodes.IMUL, opcodes.IDIV, opcodes.IREM,
              opcodes.ISHL, opcodes.ISHR, opcodes.IUSHR, opcodes.IAND, opcodes.IOR,
              opcodes.IXOR}
LongBinary == {opcodes.LADD, opcodes.LSUB, opcodes.LMUL, opcodes.LDIV, opcodes.LREM,
               opcodes.LAND, opcodes.LOR, opcodes.LXOR, opcodes.LCMP}
LongShift == {opcodes.LSHL, opcodes.LSHR, opcodes.LUSHR}
LongUnary == {opcodes.LNEG, opcodes.L2I, opcodes.L2F, opcodes.L2D}
ReturnOps == {opcodes.RETURN, opcodes.IRETURN, opcodes.LRETURN, opcodes.FRETURN,
              opcodes.DRETURN, opcodes.ARETURN}
StackOps == IntBinary \cup LongBinary \cup LongShift \cup LongUnary
            \cup {opcodes.INEG, opcodes.POP, opcodes.POP2, opcodes.LCONST_0,
                  opcodes.LCONST_1, opcodes.NOP}

\* the pops of a handler, top of stack first, with the Go type each is asserted to
Kinds(op) ==
    CASE op \in IntBinary -> <<"int64", "int64">>
      [] op \in LongBinary -> <<"int64", "any", "int64", "any">>
      [] op \in LongShift -> <<"int64", "int64", "any">>
      [] op \in LongUnary -> <<"int64", "any">>
      [] op \in {opcodes.INEG, opcodes.IRETURN} -> <<"int64">>
      [] op = opcodes.LRETURN -> <<"int64", "any">>
      [] op = opcodes.FRETURN -> <<"float64">>
      [] op = opcodes.DRETURN -> <<"float64", "any">>
      [] op \in {opcodes.POP, opcodes.ARETURN} -> <<"any">>
      [] op = opcodes.POP2 -> <<"any", "any">>
      [] OTHER -> <<>>

\* value1 (pushed first) and value2 (on top) among the popped values vs
Value2(op, vs) == vs[1].v
Value1(op, vs) == IF op \in LongBinary THEN vs[3].v ELSE vs[2].v

\* faulty variant of DivideByZero: only the int opcodes check the divisor
DivideByZero_IntOnly(op, vs) ==
    op \in {opcodes.IDIV, opcodes.IREM} /\ Value2(op, vs) = {}

DivideByZero(op, vs) ==
    op \in {opcodes.IDIV, opcodes.IREM, opcodes.LDIV, opcodes.LREM} /\ Value2(op, vs) = {}

\* the result of a two-operand opcode
BinOp(op, x, y) ==
    CASE op = opcodes.IADD -> IADD(x, y)
      [] op = opcodes.ISUB -> ISUB(x, y)
      [] op = opcodes.IMUL -> IMUL(x, y)
      [] op = opcodes.IDIV -> IDIV(x, y)
      [] op = opcodes.IREM -> IREM(x, y)
      [] op = opcodes.ISHL -> ISHL(x, y)
      [] op = opcodes.ISHR -> ISHR(x, y)
      [] op = opcodes.IUSHR -> IUSHR(x, y)
      [] op \in {opcodes.IAND, opcodes.LAND} -> x \cap y
      [] op \in {opcodes.IOR, opcodes.LOR} -> x \cup y
      [] op \in {opcodes.IXOR, opcodes.LXOR} -> (x \ y) \cup (y \ x)
      [] op = opcodes.LADD -> Add64(x, y)
      [] op = opcodes.LSUB -> Sub64(x, y)
      [] op = opcodes.LMUL -> Mul64(x, y)
      [] op = opcodes.LDIV -> Div64(x, y)
      [] op = opcodes.LREM -> Rem64(x, y)
      [] op = opcodes.LSHL -> LSHL(x, y)
      [] op = opcodes.LSHR -> LSHR(x, y)
      [] op = opcodes.LUSHR -> LUSHR(x, y)
      [] op = opcodes.LCMP -> LCMP(x, y)

\* faulty variant of Results: a long result is pushed in one slot only
Results_OneSlot(op, vs) ==
    CASE op \in IntBinary \cup LongBinary \cup LongShift ->
            <<JW(BinOp(op, Value1(op, vs), Value2(op, vs)))>>
      [] op \in {opcodes.INEG, opcodes.LNEG, opcodes.L2I} -> <<JW(vs[1].v)>>
      [] op \in {opcodes.L2F, opcodes.L2D} -> <<FW(vs[1].v)>>
      [] op \in {opcodes.LCONST_0, opcodes.LCONST_1} -> <<J(0)>>
      [] OTHER -> <<>>

\* the values a handler pushes, in order, after popping vs
Results(op, vs) ==
    CASE op \in IntBinary \cup {opcodes.LCMP} -> <<JW(BinOp(op, Value1(op, vs), Value2(op, vs)))>>
      [] op \in (LongBinary \ {opcodes.LCMP}) \cup LongShift ->
            LET r == JW(BinOp(op, Value1(op, vs), Value2(op, vs))) IN <<r, r>>
      [] op = opcodes.INEG -> <<JW(INEG(vs[1].v))>>
      [] op = opcodes.LNEG -> <<JW(Neg64(vs[1].v)), JW(Neg64(vs[1].v))>>
      [] op = opcodes.L2I -> <<JW(L2I(vs[1].v))>>
      [] op = opcodes.L2F -> <<FW(vs[1].v)>>
      [] op = opcodes.L2D -> <<FW(vs[1].v), FW(vs[1].v)>>
      [] op = opcodes.LCONST_0 -> <<J(0), J(0)>>
      [] op = opcodes.LCONST_1 -> <<J(1), J(1)>>
      [] OTHER -> <<>>

\* the outcome of one handler: the frame stack, how runFrame goes on, its error
NoError == [msg |-> "", pc |-> -1]
Error(m) == [msg |-> m, pc |-> -1]
Outcome(frames, st, e) == [fs |-> frames, st |-> st, err |-> e]
Panic(frames, why) == Outcome(frames, "error", Error("panic: " \o why))

\* operand-less handlers that only pop and push on the current frame
ExecStackOp(frames, op) ==
    Only({IF ~p.ok THEN Panic(<<p.f>> \o Tail(frames), "interface conversion")
          ELSE IF DivideByZero(op, p.vs)
          THEN Outcome(<<p.f>> \o Tail(frames), "error",
                       Error("java.lang.ArithmeticException: divide by zero"))
          ELSE Only({Outcome(<<[g EXCEPT !.PC = g.PC + 1]>> \o Tail(frames),
                             "running", NoError) :
                        g \in {pushAll(p.f, res) : res \in {Results(op, p.vs)}}}) :
             p \in {popAll(frames[1], Kinds(op), <<>>)}})

\* the number of operand bytes that follow an opcode
OperandBytes(op) ==
    CASE op \in {opcodes.BIPUSH, opcodes.LDC, opcodes.ILOAD, opcodes.LLOAD,
                 opcodes.LSTORE} -> 1
      [] op \in {opcodes.SIPUSH, opcodes.LDC_W, opcodes.LDC2_W, opcodes.GOTO,
                 opcodes.PUTSTATIC, opcodes.PUTFIELD, opcodes.INVOKEVIRTUAL, opcodes.NEW_} -> 2
      [] op = opcodes.IMPDEP2 -> 3
      [] OTHER -> 0

\* the constant-pool index an LDC-family opcode reads from its operand bytes
CpIndexOf(f, op) ==
    IF op = opcodes.LDC THEN At(f.Meth, f.PC + 1)
    ELSE At(f.Meth, f.PC + 1) * 256 + At(f.Meth, f.PC + 2)

\* BIPUSH, SIPUSH, LDC, LDC_W, LDC2_W: the operand bytes are consumed, then the
\* value is pushed (once, or twice for LDC2_W)
ExecPushOp(frames, op) ==
    LET f == frames[1]
        f1 == [f EXCEPT !.PC = f.PC + OperandBytes(op)]
        done(g) == Outcome(<<[g EXCEPT !.PC = g.PC + 1]>> \o Tail(frames), "running", NoError)
    IN CASE op = opcodes.BIPUSH -> done(push(f1, J(SignedByte(At(f.Meth, f.PC + 1)))))
         [] op = opcodes.SIPUSH ->
              done(push(f1, J(SignedShort(At(f.Meth, f.PC + 1), At(f.Meth, f.PC + 2)))))
         [] OTHER ->
              LET idx == CpIndexOf(f, op)
              IN IF idx >= Len(CP) THEN Panic(<<f1>> \o Tail(frames), "index out of range")
                 ELSE LET e == At(CP, idx)
                      IN IF op = opcodes.LDC2_W /\ e.Type \in {"DoubleConst", "LongConst"}
                         THEN done(pushAll(f1, <<e.val, e.val>>))
                         ELSE IF op # opcodes.LDC2_W /\ e.Type \in {"IntConst", "FloatConst"}
                         THEN done(push(f1, e.val))
                         ELSE Outcome(<<f1>> \o Tail(frames), "error",
                                      Error("invalid constant-pool type for LDC"))

\* the opcodes that load a long from the locals, and those that store one
LongLoads ==
    {opcodes.LLOAD, opcodes.LLOAD_0, opcodes.LLOAD_1, opcodes.LLOAD_2,
     opcodes.LLOAD_3}
LongStores ==
    {opcodes.LSTORE, opcodes.LSTORE_0, opcodes.LSTORE_1, opcodes.LSTORE_2,
     opcodes.LSTORE_3}

\* the local variable an opcode names: by its index byte, or by itself
LocalIndex(f, op) ==
    CASE op \in {opcodes.ILOAD, opcodes.LLOAD, opcodes.LSTORE} ->
             At(f.Meth, f.PC + 1)
      [] op \in {opcodes.LLOAD_0, opcodes.LSTORE_0} -> 0
      [] op \in {opcodes.LLOAD_1, opcodes.LSTORE_1} -> 1
      [] op \in {opcodes.LLOAD_2, opcodes.LSTORE_2} -> 2
      [] op \in {opcodes.LLOAD_3, opcodes.LSTORE_3} -> 3

\* ILOAD, LLOAD, LLOAD_0..3: the index byte, if any, is consumed, then
\* locals[index] is pushed (twice for a long); an index beyond the locals is
\* Go's index-out-of-range panic
ExecLoad(frames, op) ==
    LET f == frames[1]
        index == LocalIndex(f, op)
        f1 == [f EXCEPT !.PC = f.PC + OperandBytes(op)]
    IN IF index >= Len(f.Locals) THEN Panic(<<f1>> \o Tail(frames), "index out of range")
       ELSE Only({Outcome(<<[g EXCEPT !.PC = g.PC + 1]>> \o Tail(frames), "running", NoError) :
                     g \in {IF op \in LongLoads
                            THEN pushAll(f1, <<At(f.Locals, index), At(f.Locals, index)>>)
                            ELSE push(f1, At(f.Locals, index))}})

\* faulty variant of ExecStore: the long is written into locals[index] only
ExecStore_OneLocal(frames, op) ==
    Only({IF ~p.ok THEN Panic(<<p.f>> \o Tail(frames), "interface conversion")
          ELSE IF index >= Len(p.f.Locals)
          THEN Panic(<<p.f>> \o Tail(frames), "index out of range")
          ELSE Outcome(<<[p.f EXCEPT !.PC = @ + 1,
                                     !.Locals[index + 1] = p.vs[1]]>>
                          \o Tail(frames), "running", NoError) :
             p \in {popAll([frames[1] EXCEPT !.PC = @ + OperandBytes(op)],
                           <<"int64", "any">>, <<>>)},
             index \in {LocalIndex(frames[1], op)}})

\* LSTORE, LSTORE_0..3: the index byte, if any, is consumed, the long is
\* popped (its value from the top slot, then the second slot), and the value
\* is written into locals[index] and locals[index+1]; an index beyond the
\* locals is Go's index-out-of-range panic
ExecStore(frames, op) ==
    Only({IF ~p.ok THEN Panic(<<p.f>> \o Tail(frames), "interface conversion")
          ELSE IF index >= Len(p.f.Locals)
          THEN Panic(<<p.f>> \o Tail(frames), "index out of range")
          ELSE IF index + 1 >= Len(p.f.Locals)
          THEN Panic(<<[p.f EXCEPT !.Locals[index + 1] = p.vs[1]]>>
                        \o Tail(frames), "index out of range")
          ELSE Outcome(<<[p.f EXCEPT !.PC = @ + 1,
                                     !.Locals[index + 1] = p.vs[1],
                                     !.Locals[index + 2] = p.vs[1]]>>
                          \o Tail(frames), "running", NoError) :
             p \in {popAll([frames[1] EXCEPT !.PC = @ + OperandBytes(op)],
                           <<"int64", "any">>, <<>>)},
             index \in {LocalIndex(frames[1], op)}})

\* ------------------------------------------------------------------------
\* Objects: INSTANCEOF, NEW, PUTFIELD, PUTSTATIC, INVOKEVIRTUAL
\* ------------------------------------------------------------------------

VARIABLES
    heap,     \* the objects the operand stacks point to: heap[id] is
              \* [Klass, Fields], Fields a sequence of [Ftype, Fvalue]
    statics   \* the static fields, in the slots the Field-refs name

\* faulty variant of SuperClassOf: no class has a superclass
SuperClassOf_None(c) == ""

\* the superclass of a loaded class ("" for java/lang/Object)
SuperClassOf(c) ==
    CASE c = "java/lang/String" -> "java/lang/Object"
      [] c = "java/lang/Integer" -> "java/lang/Number"
      [] c = "java/lang/Number" -> "java/lang/Object"
      [] OTHER -> ""

\* a class is assignment-compatible with itself and with its superclasses
RECURSIVE AssignableTo(_, _)
AssignableTo(c, target) ==
    c # "" /\ (c = target \/ AssignableTo(SuperClassOf(c), target))

\* an outcome that also changes the objects or the static fields
WithHeap(o, h, st) == [fs |-> o.fs, st |-> o.st, err |-> o.err, heap |-> h, statics |-> st]

\* the u16 constant-pool index in the two bytes after the opcode
CpSlot(f) == At(f.Meth, f.PC + 1) * 256 + At(f.Meth, f.PC + 2)

\* INSTANCEOF: nil and Null give 0 without the Class-ref being looked at; an
\* object gives 1 if its class is assignment-compatible with the Class-ref's
ExecInstanceof(frames) ==
    LET f == frames[1]
        done(g) == Outcome(<<[g EXCEPT !.PC = g.PC + 1]>> \o Tail(frames), "running", NoError)
    IN Only({IF r.v.t \in {"nil", "null"} THEN done(push(r.f, J(0)))
             ELSE IF r.v.t # "object"
             THEN Panic(<<r.f>> \o Tail(frames), "interface conversion")
             ELSE IF f.PC + 2 >= Len(f.Meth) \/ CpSlot(f) >= Len(CP)
             THEN Panic(<<r.f>> \o Tail(frames), "index out of range")
             ELSE IF At(CP, CpSlot(f)).Type # "ClassRef"
             THEN Outcome(<<r.f>> \o Tail(frames), "error",
                          Error("INSTANCEOF: Invalid classRef found"))
             ELSE done(push(r.f, J(IF AssignableTo(heap[Only(r.v.v)].Klass,
                                                   At(CP, CpSlot(f)).val)
                                   THEN 1 ELSE 0))) :
                r \in {pop([f EXCEPT !.PC = f.PC + 2])}})

\* faulty variant of CpTypeWanted: every opcode but INVOKEVIRTUAL expects a Field-ref
CpTypeWanted_NewTakesFieldRef(op) ==
    IF op = opcodes.INVOKEVIRTUAL THEN "MethodRef" ELSE "FieldRef"

\* the constant-pool tag a resolution opcode requires, and its error otherwise
CpTypeWanted(op) ==
    CASE op = opcodes.INVOKEVIRTUAL -> "MethodRef"
      [] op = opcodes.NEW_ -> "ClassRef"
      [] op \in {opcodes.PUTFIELD, opcodes.PUTSTATIC} -> "FieldRef"

CpTypeError(op) ==
    CASE op = opcodes.INVOKEVIRTUAL -> "INVOKEVIRTUAL: Expected a method ref, but got"
      [] op = opcodes.NEW_ -> "NEW: Invalid type for new object"
      [] op = opcodes.PUTFIELD -> "PUTFIELD: Expected a field ref, but got"
      [] op = opcodes.PUTSTATIC -> "PUTSTATIC: Expected a field ref, but got"

\* the bytecode of the method INVOKEVIRTUAL finds: it returns an int
CalleeCode == <<opcodes.BIPUSH, 6, opcodes.IRETURN>>

\* PUTFIELD once its Field-ref is decoded: the value is popped (its second slot
\* too for a long or double), then the object reference; a static tag is an error
ExecPutField(f1, rest, slot) ==
    Only({IF ref.v.t # "object" THEN Panic(<<ref.f>> \o rest, "interface conversion")
          ELSE IF slot >= Len(heap[Only(ref.v.v)].Fields)
          THEN Panic(<<ref.f>> \o rest, "index out of range")
          ELSE IF IsStatic(heap[Only(ref.v.v)].Fields[slot + 1].Ftype)
          THEN Outcome(<<ref.f>> \o rest, "error",
                       Error("PUTFIELD: invalid attempt to update a static variable"))
          ELSE WithHeap(Outcome(<<[ref.f EXCEPT !.PC = ref.f.PC + 1]>> \o rest,
                                "running", NoError),
                        [heap EXCEPT ![Only(ref.v.v)].Fields[slot + 1].Fvalue = value.v],
                        statics) :
             value \in {pop(f1)},
             ref \in {Only({IF below.v.t = "object" THEN below ELSE pop(below.f) :
                               below \in {pop(pop(f1).f)}})}})

\* INVOKEVIRTUAL, NEW, PUTFIELD, PUTSTATIC: the operand bytes are consumed and
\* the constant-pool entry they name must have the tag the opcode requires
ExecResolve(frames, op) ==
    LET f == frames[1]
        f1 == [f EXCEPT !.PC = f.PC + 2]
        rest == Tail(frames)
        e == At(CP, CpSlot(f))
    IN IF CpSlot(f) >= Len(CP) THEN Panic(<<f1>> \o rest, "index out of range")
       ELSE IF e.Type # CpTypeWanted(op)
       THEN Outcome(<<f1>> \o rest, "error", Error(CpTypeError(op)))
       ELSE CASE op = opcodes.NEW_ ->
                   Only({WithHeap(Outcome(<<[g EXCEPT !.PC = g.PC + 1]>> \o rest,
                                          "running", NoError),
                                  Append(heap, [Klass |-> e.val, Fields |-> <<>>]), statics) :
                            g \in {push(f1, Ref(Len(heap) + 1))}})
              [] op = opcodes.PUTSTATIC ->
                   Only({WithHeap(Outcome(<<[r.f EXCEPT !.PC = r.f.PC + 1]>> \o rest,
                                          "running", NoError),
                                  heap, [statics EXCEPT ![e.val + 1].Fvalue = r.v]) :
                            r \in {pop(f1)}})
              [] op = opcodes.PUTFIELD -> ExecPutField(f1, rest, e.val)
              [] op = opcodes.INVOKEVIRTUAL ->
                   Only({IF r.v.t # "object" THEN Panic(<<r.f>> \o rest, "interface conversion")
                         ELSE Outcome(<<[CreateFrame(CalleeCode, Len(f.OpStack))
                                           EXCEPT !.Locals = <<r.v>>],
                                        [r.f EXCEPT !.PC = r.f.PC + 1]>> \o rest,
                                      "running", NoError) :
                            r \in {pop(f1)}})

\* GOTO: branch by the signed 16-bit offset, relative to the opcode's PC
ExecGoto(frames) ==
    LET f == frames[1]
        jumpTo == SignedShort(At(f.Meth, f.PC + 1), At(f.Meth, f.PC + 2))
    IN Outcome(<<[f EXCEPT !.PC = f.PC + jumpTo]>> \o Tail(frames), "running", NoError)

\* faulty variant of ExecReturn: a two-slot value reaches the caller in one slot
ExecReturn_OneSlot(frames, op) ==
    LET p == popAll(frames[1], Kinds(op), <<>>)
    IN IF op = opcodes.RETURN
       THEN Outcome(<<[frames[1] EXCEPT !.TOS = -1]>> \o Tail(frames), "returned", NoError)
       ELSE IF ~p.ok THEN Panic(<<p.f>> \o Tail(frames), "interface conversion")
       ELSE IF Len(frames) < 2 THEN Panic(<<p.f>> \o Tail(frames), "nil pointer dereference")
       ELSE Outcome(<<p.f, push(frames[2], p.vs[1])>> \o Tail(Tail(frames)),
                    "returned", NoError)

\* faulty variant of ExecReturn: the opcode itself pops the returning frame
ExecReturn_PopsFrame(frames, op) ==
    LET p == popAll(frames[1], Kinds(op), <<>>)
        copies == IF op \in {opcodes.LRETURN, opcodes.DRETURN} THEN <<p.vs[1], p.vs[1]>>
                  ELSE <<p.vs[1]>>
    IN IF op = opcodes.RETURN
       THEN Outcome(<<[frames[1] EXCEPT !.TOS = -1]>> \o Tail(frames), "returned", NoError)
       ELSE IF ~p.ok THEN Panic(<<p.f>> \o Tail(frames), "interface conversion")
       ELSE IF Len(frames) < 2 THEN Panic(<<p.f>> \o Tail(frames), "nil pointer dereference")
       ELSE Outcome(<<pushAll(frames[2], copies)>> \o Tail(Tail(frames)),
                    "returned", NoError)

\* faulty variant of ExecReturn: RETURN leaves the operand stack as it is
ExecReturn_KeepsStack(frames, op) ==
    LET p == popAll(frames[1], Kinds(op), <<>>)
        copies == IF op \in {opcodes.LRETURN, opcodes.DRETURN} THEN <<p.vs[1], p.vs[1]>>
                  ELSE <<p.vs[1]>>
    IN IF op = opcodes.RETURN
       THEN Outcome(frames, "returned", NoError)
       ELSE IF ~p.ok THEN Panic(<<p.f>> \o Tail(frames), "interface conversion")
       ELSE IF Len(frames) < 2 THEN Panic(<<p.f>> \o Tail(frames), "nil pointer dereference")
       ELSE Outcome(<<p.f, pushAll(frames[2], copies)>> \o Tail(Tail(frames)),
                    "returned", NoError)

\* RETURN empties the operand stack; the value-returning opcodes pop the value
\* (1 or 2 slots) and push it onto the frame beneath; runFrame then returns nil
\* and the frame is left on the frame stack for whoever ran it to pop
ExecReturn(frames, op) ==
    LET p == popAll(frames[1], Kinds(op), <<>>)
        copies == IF op \in {opcodes.LRETURN, opcodes.DRETURN} THEN <<p.vs[1], p.vs[1]>>
                  ELSE <<p.vs[1]>>
    IN IF op = opcodes.RETURN
       THEN Outcome(<<[frames[1] EXCEPT !.TOS = -1]>> \o Tail(frames), "returned", NoError)
       ELSE IF ~p.ok THEN Panic(<<p.f>> \o Tail(frames), "interface conversion")
       ELSE IF Len(frames) < 2 THEN Panic(<<p.f>> \o Tail(frames), "nil pointer dereference")
       ELSE Outcome(<<p.f, pushAll(frames[2], copies)>> \o Tail(Tail(frames)),
                    "returned", NoError)

\* IMPDEP2: report the stack error encoded in the three bytes after the opcode
ExecImpdep2(frames) ==
    LET f == frames[1]
        code == At(f.Meth, f.PC + 1)
        at == At(f.Meth, f.PC + 2) * 256 + At(f.Meth, f.PC + 3)
        msg == CASE code = 1 -> "stack overflow"
                 [] code = 2 -> "stack underflow"
                 [] OTHER -> "IMPDEP2 instruction"
    IN Outcome(frames, "error", [msg |-> msg, pc |-> at])

\* faulty variant of InvalidBytecode: the byte is skipped like a NOP
InvalidBytecode_Skipped(frames, op) ==
    Outcome(<<[frames[1] EXCEPT !.PC = frames[1].PC + 1]>> \o Tail(frames), "running", NoError)

\* the default case of the switch: runFrame reports the byte and its PC and
\* returns an error
InvalidBytecode(frames, op) ==
    Outcome(frames, "error", [msg |-> "Invalid bytecode", pc |-> frames[1].PC, op |-> op])

\* the switch of runFrame on the opcode at f.PC
Exec(frames, op) ==
    LET f == frames[1]
    IN IF f.PC + OperandBytes(op) >= Len(f.Meth) THEN Panic(frames, "index out of range")
       ELSE CASE op \in StackOps -> ExecStackOp(frames, op)
              [] op \in {opcodes.BIPUSH, opcodes.SIPUSH, opcodes.LDC, opcodes.LDC_W,
                         opcodes.LDC2_W} -> ExecPushOp(frames, op)
              [] op \in {opcodes.ILOAD} \cup LongLoads -> ExecLoad(frames, op)
              [] op \in LongStores -> ExecStore(frames, op)
              [] op = opcodes.INSTANCEOF -> ExecInstanceof(frames)
              [] op \in {opcodes.PUTSTATIC, opcodes.PUTFIELD, opcodes.INVOKEVIRTUAL,
                         opcodes.NEW_} -> ExecResolve(frames, op)
              [] op = opcodes.GOTO -> ExecGoto(frames)
              [] op \in ReturnOps -> ExecReturn(frames, op)
              [] op = opcodes.IMPDEP2 -> ExecImpdep2(frames)
              [] OTHER -> InvalidBytecode(frames, op)

\* ------------------------------------------------------------------------
\* The class-file parser: parse and the functions it calls on the header
\* ------------------------------------------------------------------------

\* a nil error
NilError == [type |-> "", msg |-> <<>>]

\* cfe: a ClassFormatError with its message (a number that strconv.Itoa puts
\* into the text is kept as a part of its own)
cfe(msg) == [type |-> "ClassFormatError", msg |-> msg]

\* intFrom2Bytes: the big-endian 16-bit value at bytes[pos], bytes[pos+1], or
\* an error when the buffer ends before
intFrom2Bytes(bytes, pos) ==
    IF Len(bytes) < pos + 2
    THEN [v |-> 0, err |-> [type |-> "error", msg |-> <<"invalid offset into file">>]]
    ELSE [v |-> At(bytes, pos) * 256 + At(bytes, pos + 1), err |-> NilError]

\* globals.MaxJavaVersion and MaxJavaVersionRaw: Java 11, the highest version
\* the host accepts, and its class-file version
MaxJavaVersion == 11
MaxJavaVersionRaw == 55

\* the types of constant-pool entries the model's class files hold
Dummy == 0
UTF8 == 1
IntConst == 3
ClassRef == 7

\* var pClass = parsedClass{}: strings are the sequences of their bytes, the
\* class's access booleans the set classIs
ZeroClass ==
    [javaVersion |-> 0, cpCount |-> 0, cpIndex |-> <<>>, classRefs |-> <<>>,
     utf8Refs |-> <<>>, accessFlags |-> 0, classIs |-> {}, className |-> <<>>,
     superClass |-> <<>>, interfaceCount |-> 0, interfaces |-> <<>>, fieldCount |-> 0]

\* faulty variant of parseMagicNumber: the fourth byte is not looked at
parseMagicNumber_ThreeBytes(bytes) ==
    IF Len(bytes) < 4 THEN cfe(<<"invalid magic number">>)
    ELSE IF At(bytes, 0) # 202 \/ At(bytes, 1) # 254 \/ At(bytes, 2) # 186
    THEN cfe(<<"invalid magic number">>)
    ELSE NilError

\* parseMagicNumber
parseMagicNumber(bytes) ==
    IF Len(bytes) < 4 THEN cfe(<<"invalid magic number">>)
    ELSE IF At(bytes, 0) # 202 \/ At(bytes, 1) # 254 \/ At(bytes, 2) # 186
            \/ At(bytes, 3) # 190
    THEN cfe(<<"invalid magic number">>)
    ELSE NilError

\* parseJavaVersionNumber: the error, and the class as it leaves it
parseJavaVersionNumber(bytes, klass) ==
    Only({IF version.err # NilError THEN [err |-> version.err, klass |-> klass]
          ELSE IF version.v > MaxJavaVersionRaw
          THEN [err |-> cfe(<<"Jacobin supports only Java versions through Java ", MaxJavaVersion>>),
                klass |-> klass]
          ELSE [err |-> NilError, klass |-> [klass EXCEPT !.javaVersion = version.v]] :
             version \in {intFrom2Bytes(bytes, 6)}})

\* getConstantPoolCount: the error, and the class as it leaves it
getConstantPoolCount(bytes, klass) ==
    Only({IF cpEntryCount.err # NilError \/ cpEntryCount.v <= 2
          THEN [err |-> cfe(<<"Invalid number of entries in constant pool: ",
                              cpEntryCount.v>>),
                klass |-> klass]
          ELSE [err |-> NilError, klass |-> [klass EXCEPT !.cpCount = cpEntryCount.v]] :
             cpEntryCount \in {intFrom2Bytes(bytes, 8)}})

\* what a parsing function returns: the position, the error, and the class
\* as it leaves it
Parsed(p, e, klass) == [pos |-> p, err |-> e, klass |-> klass]

\* the entries of the constant pool from byte at on, n of them still to read:
\* a UTF8 entry is its tag, a u16 length and the bytes; a Class-ref its tag
\* and a u16 name index; an int constant its tag and four bytes
RECURSIVE ReadCpEntries(_, _, _, _)
ReadCpEntries(bytes, at, n, klass) ==
    IF n = 0 THEN Parsed(at - 1, NilError, klass)
    ELSE IF at >= Len(bytes) THEN Parsed(at, cfe(<<"constant pool ends early">>), klass)
    ELSE IF At(bytes, at) = UTF8
    THEN Only({IF len.err # NilError \/ at + 3 + len.v > Len(bytes)
               THEN Parsed(at, cfe(<<"invalid UTF8 entry">>), klass)
               ELSE ReadCpEntries(bytes, at + 3 + len.v, n - 1,
                       [klass EXCEPT
                          !.cpIndex = Append(@, [entryType |-> UTF8,
                                                 slot |-> Len(klass.utf8Refs)]),
                          !.utf8Refs = Append(@, [content |->
                                          SubSeq(bytes, at + 4, at + 3 + len.v)])]) :
                  len \in {intFrom2Bytes(bytes, at + 1)}})
    ELSE IF At(bytes, at) = ClassRef
    THEN Only({IF index.err # NilError
               THEN Parsed(at, cfe(<<"invalid Class-ref entry">>), klass)
               ELSE ReadCpEntries(bytes, at + 3, n - 1,
                       [klass EXCEPT
                          !.cpIndex = Append(@, [entryType |-> ClassRef,
                                                 slot |-> Len(klass.classRefs)]),
                          !.classRefs = Append(@, [index |-> index.v])]) :
                  index \in {intFrom2Bytes(bytes, at + 1)}})
    ELSE IF At(bytes, at) = IntConst
    THEN IF at + 5 > Len(bytes) THEN Parsed(at, cfe(<<"invalid int entry">>), klass)
         ELSE ReadCpEntries(bytes, at + 5, n - 1,
                 [klass EXCEPT !.cpIndex = Append(@, [entryType |-> IntConst, slot |-> 0])])
    ELSE Parsed(at, cfe(<<"invalid constant-pool entry type: ", At(bytes, at)>>), klass)

\* parseConstantPool: entry 0 is a dummy, then cpCount - 1 entries from byte 10
parseConstantPool(bytes, klass) ==
    ReadCpEntries(bytes, 10, klass.cpCount - 1,
                  [klass EXCEPT !.cpIndex = <<[entryType |-> Dummy, slot |-> 0]>>])

\* fetchUTF8string: the content of the UTF8 entry at an index of the constant
\* pool, or an error when the index is not one of a UTF8 entry
fetchUTF8string(klass, index) ==
    IF index < 1 \/ index > Len(klass.cpIndex) - 1
    THEN [s |-> <<>>, err |-> cfe(<<"attempt to fetch invalid UTF8 at CP entry #", index>>)]
    ELSE IF At(klass.cpIndex, index).entryType # UTF8
    THEN [s |-> <<>>, err |-> cfe(<<"attempt to fetch invalid UTF8 at CP entry #", index>>)]
    ELSE [s |-> At(klass.utf8Refs, At(klass.cpIndex, index).slot).content, err |-> NilError]

\* errors.New("")
EmptyError == [type |-> "error", msg |-> <<>>]

\* the access flags and the boolean each sets
AccessBits ==
    {<<1, "Public">>, <<16, "Final">>, <<32, "Super">>, <<512, "Interface">>,
     <<1024, "Abstract">>, <<4096, "Synthetic">>, <<8192, "Annotation">>,
     <<16384, "Enum">>, <<32768, "Module">>}

\* parseAccessFlags
parseAccessFlags(bytes, loc, klass) ==
    Only({IF accessFlags.err # NilError
          THEN Parsed(loc + 2, cfe(<<"Invalid get of class access flags">>), klass)
          ELSE Parsed(loc + 2, NilError,
                      [klass EXCEPT
                         !.accessFlags = accessFlags.v,
                         !.classIs = @ \cup {b[2] : b \in {c \in AccessBits :
                                                (accessFlags.v \div c[1]) % 2 = 1}}]) :
             accessFlags \in {intFrom2Bytes(bytes, loc + 1)}})

\* the bytes of "java/lang/Object"
JavaLangObject == <<106, 97, 118, 97, 47, 108, 97, 110, 103, 47, 79, 98, 106, 101, 99, 116>>

\* parseClassName once the Class-ref it names is known to be one
ClassNameAt(loc, klass, index) ==
    Only({IF className.err # NilError THEN Parsed(loc + 2, EmptyError, klass)
          ELSE IF Len(klass.className) > 0
          THEN Parsed(loc + 2, cfe(<<"Class appears to have two names: ",
                                     klass.className, " and: ", className.s>>), klass)
          ELSE Parsed(loc + 2, NilError, [klass EXCEPT !.className = className.s]) :
             className \in {fetchUTF8string(klass,
                               At(klass.classRefs, At(klass.cpIndex, index).slot).index)}})

\* faulty variant of parseClassName: the type of the entry is not checked
parseClassName_AnyType(bytes, loc, klass) ==
    Only({IF index.err # NilError
          THEN Parsed(loc + 2, cfe(<<"error obtaining index for class name">>), klass)
          ELSE IF index.v < 1 \/ index.v > Len(klass.cpIndex) - 1
          THEN Parsed(loc + 2, cfe(<<"invalid index into CP for class name">>), klass)
          ELSE ClassNameAt(loc, klass, index.v) :
             index \in {intFrom2Bytes(bytes, loc + 1)}})

\* parseClassName
parseClassName(bytes, loc, klass) ==
    Only({IF index.err # NilError
          THEN Parsed(loc + 2, cfe(<<"error obtaining index for class name">>), klass)
          ELSE IF index.v < 1 \/ index.v > Len(klass.cpIndex) - 1
          THEN Parsed(loc + 2, cfe(<<"invalid index into CP for class name">>), klass)
          ELSE IF At(klass.cpIndex, index.v).entryType # ClassRef
          THEN Parsed(loc + 2, cfe(<<"invalid entry for class name">>), klass)
          ELSE ClassNameAt(loc, klass, index.v) :
             index \in {intFrom2Bytes(bytes, loc + 1)}})

\* parseSuperClassName once the Class-ref it names is known to be one
SuperClassNameAt(loc, klass, index) ==
    Only({IF superClassName.err # NilError THEN Parsed(loc + 2, EmptyError, klass)
          ELSE IF superClassName.s = <<>> /\ klass.className # JavaLangObject
          THEN Parsed(loc + 2, cfe(<<"invaild empty string for superclass name">>), klass)
          ELSE IF Len(klass.superClass) > 0
          THEN Parsed(loc + 2, cfe(<<"Class can only have 1 superclass, found two: ",
                                     klass.superClass, " and: ", superClassName.s>>), klass)
          ELSE Parsed(loc + 2, NilError, [klass EXCEPT !.superClass = superClassName.s]) :
             superClassName \in {fetchUTF8string(klass,
                                    At(klass.classRefs, At(klass.cpIndex, index).slot).index)}})

\* parseSuperClassName
parseSuperClassName(bytes, loc, klass) ==
    Only({IF index.err # NilError
          THEN Parsed(loc + 2, cfe(<<"error obtaining index for superclass name">>), klass)
          ELSE IF index.v < 1 \/ index.v > Len(klass.cpIndex) - 1
          THEN Parsed(loc + 2, cfe(<<"invalid index into CP for superclass name">>), klass)
          ELSE IF At(klass.cpIndex, index.v).entryType # ClassRef
          THEN Parsed(loc + 2, cfe(<<"invalid entry for superclass name">>), klass)
          ELSE SuperClassNameAt(loc, klass, index.v) :
             index \in {intFrom2Bytes(bytes, loc + 1)}})

\* parseInterfaceCount
parseInterfaceCount(bytes, loc, klass) ==
    Only({IF interfaceCount.err # NilError
          THEN Parsed(loc + 2, cfe(<<"Invalid fetch of interface count">>), klass)
          ELSE Parsed(loc + 2, NilError, [klass EXCEPT !.interfaceCount = interfaceCount.v]) :
             interfaceCount \in {intFrom2Bytes(bytes, loc + 1)}})

\* one round of the loop of parseInterfaces once the index is known to be that
\* of a Class-ref: the slot of the UTF8 entry of its name is recorded
InterfaceAt(p, klass, interfaceIndex) ==
    Only({IF fetchUTF8string(klass, classEntry.index).err # NilError
          THEN Parsed(p + 2, EmptyError, klass)
          ELSE Parsed(p + 2, NilError,
                      [klass EXCEPT !.interfaces =
                          Append(@, At(klass.cpIndex, classEntry.index).slot)]) :
             classEntry \in {At(klass.classRefs, At(klass.cpIndex, interfaceIndex).slot)}})

\* parseInterfaces: the loop from round i on
RECURSIVE InterfacesFrom(_, _, _, _)
InterfacesFrom(bytes, p, i, klass) ==
    IF i >= klass.interfaceCount THEN Parsed(p, NilError, klass)
    ELSE Only({IF interfaceIndex.err # NilError
               THEN Parsed(p + 2, cfe(<<"Invalid fetch of interface index">>), klass)
               ELSE IF interfaceIndex.v < 1 \/ interfaceIndex.v > klass.cpCount - 1
               THEN Parsed(p + 2, cfe(<<"Interface index is out of range: ",
                                        interfaceIndex.v>>), klass)
               ELSE IF At(klass.cpIndex, interfaceIndex.v).entryType # ClassRef
               THEN Parsed(p + 2,
                           cfe(<<"Interface index does not point to a class type. Got: ",
                                 At(klass.cpIndex, interfaceIndex.v).entryType>>), klass)
               ELSE Only({IF r.err # NilError THEN r
                          ELSE InterfacesFrom(bytes, p + 2, i + 1, r.klass) :
                             r \in {InterfaceAt(p, klass, interfaceIndex.v)}}) :
                  interfaceIndex \in {intFrom2Bytes(bytes, p + 1)}})

\* parseInterfaces
parseInterfaces(bytes, loc, klass) == InterfacesFrom(bytes, loc, 0, klass)

\* parseFieldCount
parseFieldCount(bytes, loc, klass) ==
    Only({IF fieldCount.err # NilError
          THEN Parsed(loc + 2, cfe(<<"Invalid fetch of field count">>), klass)
          ELSE Parsed(loc + 2, NilError, [klass EXCEPT !.fieldCount = fieldCount.v]) :
             fieldCount \in {intFrom2Bytes(bytes, loc + 1)}})

VARIABLES
    rawBytes,    \* the buffer parse was given
    pClass,      \* the parsedClass being filled in
    parseErr,    \* the error parse returns (NilError while there is none)
    parseStage,  \* the function parse calls next; "idle" when no parse is
                 \* under way, "returned" once parse has returned
    calls,       \* history: the functions parse has called, in order
    pos          \* parse's pos: the index of the last byte consumed

parserVars == <<rawBytes, pClass, parseErr, parseStage, calls, pos>>

\* no class is being parsed
NotParsing ==
    /\ rawBytes = <<>>
    /\ pClass = ZeroClass
    /\ parseErr = NilError
    /\ parseStage = "idle"
    /\ calls = <<>>
    /\ pos = 0

\* ------------------------------------------------------------------------
\* State
\* ------------------------------------------------------------------------

VARIABLES
    fs,      \* the frame stack, top frame first (fs.Front() is fs[1])
    status,  \* where the run is: "running" inside runFrame, "returned" (runFrame
             \* returned nil at a return opcode), "ended" (it returned nil at the
             \* end of the bytecode), "error" (it returned an error), "done"
    err,     \* the error runFrame returned: its message and the PC it reports
    lastOp,  \* history: the opcode of the instruction the last action executed;
             \* -1 when it executed none, -2 when it was the pop of a frame
    pre,     \* history: the frame stack before the last executed instruction
    MainThread  \* jvm.MainThread, the thread whose Stack is fs: its Trace flag

\* the variables of the interpreter
interpVars == <<fs, status, err, lastOp, pre, heap, statics, MainThread>>

\* thread.CreateThread: tracing is off
CreateThread == [Trace |-> FALSE]

\* no frame is being run
NotRunning ==
    /\ fs = <<>>
    /\ status = "idle"
    /\ err = NoError
    /\ lastOp = -1
    /\ pre = <<>>
    /\ heap = <<>>
    /\ statics = <<>>
    /\ MainThread = CreateThread

\* ------------------------------------------------------------------------
\* Process-wide state
\* ------------------------------------------------------------------------

VARIABLES
    MethArea,          \* the method area: class name -> status of the class
    StringPool,        \* the string pool: the interned strings, in order
    MTable,            \* the native-method table: key -> MTentry
    MethodSignatures,  \* gfunction.MethodSignatures: key -> GMeth
    thrown,            \* what exceptions.ThrowExNil was last called with
    gCall,             \* the function invoked last from outside the
                       \* interpreter loop, its args and what it returned
    loader             \* the class loader: the loads under way, innermost
                       \* first, and (history) the names parsed, in order

globalVars ==
    <<MethArea, StringPool, MTable, MethodSignatures, thrown, gCall, loader>>

\* nothing thrown, no G function invoked
NoException == [exception |-> "", msg |-> ""]
NoCall == [key |-> <<>>, args |-> <<>>, ret |-> <<>>]

\* no class is being loaded, none has been parsed
NoLoads == [pending |-> <<>>, parsed |-> <<>>, err |-> "", main |-> ""]

\* the process-wide tables as they are before anything is loaded
NoGlobals ==
    /\ MethArea = <<>>
    /\ StringPool = <<>>
    /\ MTable = <<>>
    /\ MethodSignatures = <<>>
    /\ thrown = NoException
    /\ gCall = NoCall
    /\ loader = NoLoads

\* ------------------------------------------------------------------------
\* Command line and start-up state
\* ------------------------------------------------------------------------

VARIABLES
    env,       \* the environment: variable name -> value ("" when unset)
    osArgs,    \* os.Args: the program name, then the command-line arguments
    Global,    \* the Globals structure
    stdout,    \* what was printed to os.Stdout, in order
    stderr,    \* what was printed to os.Stderr, in order
    exitCode,  \* the code shutdown.Exit was called with; NotExited before
    jvmStage,  \* where JVMrun is: "idle", "HandleCli", "LoadBaseClasses",
               \* "LoadClassFromFile", "LoadReferencedClasses",
               \* "StartExec", "exited"
    jvmErrs    \* the errors JVMrun was returned: by HandleCli, by
               \* LoadClassFromFile and by StartExec ("" is nil)

cliVars ==
    <<env, osArgs, Global, stdout, stderr, exitCode, jvmStage, jvmErrs>>

javaEnvKeys == <<"JAVA_TOOL_OPTIONS", "_JAVA_OPTIONS", "JDK_JAVA_OPTIONS">>

NotExited == -1

\* globals.InitGlobals: no command line, no starting class, no exit requested
InitGlobals ==
    [commandLine |-> <<>>, args |-> <<>>, startingClass |-> <<>>,
     appArgs |-> <<>>, ExitNow |-> FALSE, actions |-> <<>>,
     JvmFrameStackShown |-> FALSE, PanicCauseShown |-> FALSE,
     GoStackShown |-> FALSE, ErrorGoStack |-> <<>>]

\* no error returned to JVMrun
NoErrors == [cli |-> "", load |-> "", exec |-> ""]

\* JVMrun is not under way
NoCli ==
    /\ env = [k \in {javaEnvKeys[i] : i \in 1..3} |-> <<>>]
    /\ osArgs = <<>>
    /\ Global = InitGlobals
    /\ stdout = <<>>
    /\ stderr = <<>>
    /\ exitCode = NotExited
    /\ jvmStage = "idle"
    /\ jvmErrs = NoErrors

vars == <<interpVars, parserVars, globalVars, cliVars>>

\* the operand-stack capacity of the frames (the method's max-stack)
MaxStack == 4

\* the largest number of instructions in the bytecode of the frame that is run
MaxInstrs == 1

\* the instructions the bytecode is drawn from, each with its operand bytes
Instrs ==
    {<<op>> : op \in StackOps \cup ReturnOps \cup {InvalidOpcode}}
    \cup {<<opcodes.BIPUSH, 255>>, <<opcodes.BIPUSH, 6>>,
          <<opcodes.SIPUSH, 1, 2>>, <<opcodes.SIPUSH, 255, 2>>,
          <<opcodes.LDC, 1>>, <<opcodes.LDC_W, 0, 1>>, <<opcodes.LDC_W, 0, 2>>,
          <<opcodes.LDC2_W, 0, 3>>, <<opcodes.LDC2_W, 0, 4>>,
          <<opcodes.ILOAD, 4>>, <<opcodes.LLOAD, 4>>, <<opcodes.ILOAD, 5>>,
          <<opcodes.GOTO, 0, 3>>, <<opcodes.GOTO, 255, 253>>,
          <<opcodes.IMPDEP2, 1, 0, 4>>, <<opcodes.IMPDEP2, 2, 0, 5>>}

\* bytecode whose last instruction lacks operand bytes
Truncated == {<<opcodes.BIPUSH>>, <<opcodes.SIPUSH, 1>>, <<opcodes.GOTO>>, <<opcodes.ILOAD>>,
              <<opcodes.LDC2_W, 0>>}

\* bytecode that branches back: NOP, then GOTO -1
Looping == {<<opcodes.NOP, opcodes.GOTO, 255, 255>>}

\* bytecode with an invalid byte between two instructions
Faulty == {<<opcodes.NOP, InvalidOpcode, opcodes.NOP>>}

\* bytecode whose push or pop is not its first instruction
Late == {<<opcodes.NOP, op>> : op \in {opcodes.POP, opcodes.POP2, opcodes.LCONST_0}}

RECURSIVE Programs(_)
Programs(n) ==
    IF n = 0 THEN {<<>>}
    ELSE LET shorter == Programs(n - 1)
         IN shorter \cup {q \o i : q \in shorter, i \in Instrs}

\* an operand stack holding n slots: two-slot pairs of a and of b in turn
InitialStack(n, a, b) ==
    [i \in 1..MaxStack |->
        IF i > n THEN Nil ELSE IF ((i - 1) \div 2) % 2 = 0 THEN a ELSE b]

InitialStacks ==
    {InitialStack(n, a, b) : n \in 0..MaxStack, a \in {J(-200), F(21)},
                             b \in {J(0), J(3)}}

\* the depth of an initial stack: its slots are filled from the bottom
DepthOf(stk) == Cardinality({i \in 1..Len(stk) : stk[i] # Nil})

\* the local variables of TestIload and TestLload: four zeroes, then a value
TestLocals == <<J(0), J(0), J(0), J(0), J(19088738)>>

\* the frame that called the frame being run, as in TestIreturn: a NOP method
\* with one int on its operand stack
CallerFrame == push(CreateFrame(<<opcodes.NOP>>, MaxStack), J(20))

Init ==
    /\ \E meth \in (Programs(MaxInstrs) \ {<<>>}) \cup Truncated \cup Looping \cup Faulty
                    \cup Late,
          stk \in InitialStacks,
          callers \in {<<>>, <<CallerFrame>>} :
          fs = <<[CreateFrame(meth, MaxStack) EXCEPT !.OpStack = stk,
                                                     !.TOS = DepthOf(stk) - 1,
                                                     !.Locals = TestLocals]>> \o callers
    /\ status = "running"
    /\ err = NoError
    /\ lastOp = -1
    /\ pre = fs
    /\ heap = <<>>
    /\ statics = <<>>
    /\ MainThread = CreateThread
    /\ NotParsing
    /\ NoGlobals
    /\ NoCli

\* ------------------------------------------------------------------------
\* The arithmetic opcodes on boundary operands: one frame holding the operands
\* and the opcode, as in TestIsub, TestLshl, TestLrem
\* ------------------------------------------------------------------------

MinInt32 == W(-2147483647 - 1)
MaxInt32 == W(2147483647)

IntInputs == {MinInt32, W(-200), W(-25), W(-1), W(0), W(1), W(3), W(6), W(22), W(74), MaxInt32}

\* longs outside the int range as well: 2^40, the least and the greatest long
LongInputs == IntInputs \cup {{40}, {63}, WordBits \ {63}}

ShiftCounts == {W(0), W(3), W(31), W(32), W(35), W(63), W(64), W(67), W(-1)}

\* the operand stack the test of an opcode builds: a long is pushed twice
OperandStack(op, x, y) ==
    CASE op \in IntBinary -> <<JW(x), JW(y)>>
      [] op \in LongBinary -> <<JW(x), JW(x), JW(y), JW(y)>>
      [] op \in LongShift -> <<JW(x), JW(x), JW(y)>>
      [] op \in LongUnary -> <<JW(x), JW(x)>>
      [] OTHER -> <<JW(x)>>

ArithFrame(op, x, y) == pushAll(CreateFrame(<<op>>, MaxStack), OperandStack(op, x, y))

InitArith ==
    /\ \/ \E op \in IntBinary, x \in IntInputs, y \in IntInputs \cup ShiftCounts :
             fs = <<ArithFrame(op, x, y)>>
       \/ \E op \in LongBinary, x \in LongInputs, y \in LongInputs :
             fs = <<ArithFrame(op, x, y)>>
       \/ \E op \in LongShift, x \in LongInputs, y \in ShiftCounts :
             fs = <<ArithFrame(op, x, y)>>
       \/ \E op \in LongUnary \cup {opcodes.INEG}, x \in LongInputs :
             fs = <<ArithFrame(op, IF op = opcodes.INEG THEN Int32(x) ELSE x, {})>>
    /\ status = "running"
    /\ err = NoError
    /\ lastOp = -1
    /\ pre = fs
    /\ heap = <<>>
    /\ statics = <<>>
    /\ MainThread = CreateThread
    /\ NotParsing
    /\ NoGlobals
    /\ NoCli

\* ------------------------------------------------------------------------
\* The object opcodes, as their tests run them: one instruction naming a
\* constant-pool entry, a reference (and a value) on the operand stack
\* ------------------------------------------------------------------------

\* the objects of the tests: a String, then objects with one field each, of
\* types int, double, static int and static double, holding 42
TestHeap ==
    <<[Klass |-> "java/lang/String", Fields |-> <<>>],
      [Klass |-> "java/lang/Object", Fields |-> <<[Ftype |-> types.Int, Fvalue |-> J(42)]>>],
      [Klass |-> "java/lang/Object", Fields |-> <<[Ftype |-> types.Double, Fvalue |-> F(42)]>>],
      [Klass |-> "java/lang/Integer",
       Fields |-> <<[Ftype |-> types.Static \o types.Int, Fvalue |-> J(42)]>>],
      [Klass |-> "java/lang/Object",
       Fields |-> <<[Ftype |-> types.StaticDouble, Fvalue |-> F(42)]>>]>>

TestStatics == <<[Ftype |-> types.Static \o types.Int, Fvalue |-> J(42)]>>

\* the operand stacks of the tests, bottom first
ObjStacks ==
    {<<>>, <<Nil>>, <<Null>>, <<J(26)>>}
    \cup {<<Ref(id)>> : id \in 1..Len(TestHeap)}
    \cup {<<Ref(id), J(26)>> : id \in 1..Len(TestHeap)}
    \cup {<<Ref(id), F(26), F(26)>> : id \in 1..Len(TestHeap)}

\* the instructions of the tests: the opcode and a u16 constant-pool index
ObjInstrs ==
    {<<opcodes.INSTANCEOF>>}
    \cup {<<op, 0, idx>> : op \in {opcodes.INSTANCEOF, opcodes.NEW_, opcodes.PUTFIELD,
                                    opcodes.PUTSTATIC, opcodes.INVOKEVIRTUAL},
                           idx \in {1, 5, 6, 7, 8}}

InitObj ==
    /\ \E meth \in ObjInstrs, stk \in ObjStacks :
          fs = <<pushAll(CreateFrame(meth, MaxStack), stk)>>
    /\ status = "running"
    /\ err = NoError
    /\ lastOp = -1
    /\ pre = fs
    /\ heap = TestHeap
    /\ statics = TestStatics
    /\ MainThread = CreateThread
    /\ NotParsing
    /\ NoGlobals
    /\ NoCli

\* ------------------------------------------------------------------------
\* Actions
\* ------------------------------------------------------------------------

\* the line runFrame logs for the instruction at f.PC of a traced thread
emitTraceData(f) ==
    [text |-> [PC |-> f.PC, opcode |-> At(f.Meth, f.PC), TOS |-> f.TOS,
               top |-> IF f.TOS >= 0 THEN <<At(f.OpStack, f.TOS)>> ELSE <<>>],
     about |-> <<"trace">>]

\* faulty variant of Traced: the top of the stack is popped to be shown, and
\* tracing is left switched off
Traced_Pops(frames, thread, out) ==
    [fs |-> <<[frames[1] EXCEPT !.TOS = IF @ >= 0 THEN @ - 1 ELSE @]>>
               \o Tail(frames),
     thread |-> [thread EXCEPT !.Trace = FALSE],
     stderr |-> Append(out, emitTraceData(frames[1]))]

\* what tracing does before an instruction is run: the trace line is logged;
\* the frame and the thread are read only
Traced(frames, thread, out) ==
    [fs |-> frames, thread |-> thread,
     stderr |-> Append(out, emitTraceData(frames[1]))]

\* the instruction at the PC of the top frame is run
RunInstruction(frames) ==
    IF frames[1].PC < 0 THEN Panic(frames, "index out of range")
    ELSE Exec(frames, At(frames[1].Meth, frames[1].PC))

\* one iteration of runFrame's loop: trace if MainThread.Trace is set, fetch
\* the opcode at f.PC and run its handler
Step ==
    /\ status = "running"
    /\ fs # <<>>
    /\ fs[1].PC < Len(fs[1].Meth)
    /\ UNCHANGED <<parserVars, globalVars, env, osArgs, Global, stdout,
                   exitCode, jvmStage, jvmErrs>>
    /\ LET f == fs[1]
           t == IF MainThread.Trace /\ f.PC >= 0
                THEN Traced(fs, MainThread, stderr)
                ELSE [fs |-> fs, thread |-> MainThread, stderr |-> stderr]
           r == RunInstruction(t.fs)
       IN /\ fs' = r.fs
          /\ status' = r.st
          /\ err' = r.err
          /\ lastOp' = IF f.PC < 0 THEN -1 ELSE At(f.Meth, f.PC)
          /\ pre' = fs
          /\ heap' = IF "heap" \in DOMAIN r THEN r.heap ELSE heap
          /\ statics' = IF "statics" \in DOMAIN r THEN r.statics ELSE statics
          /\ MainThread' = t.thread
          /\ stderr' = t.stderr

\* runFrame's loop ends when the PC has reached the end of the bytecode
EndOfCode ==
    /\ status = "running"
    /\ fs # <<>>
    /\ fs[1].PC >= Len(fs[1].Meth)
    /\ status' = "ended"
    /\ lastOp' = -1
    /\ UNCHANGED <<fs, err, pre, heap, statics, MainThread, parserVars, globalVars, cliVars>>

\* frames.PopFrame by whoever ran the frame, once runFrame has returned nil;
\* the frame beneath, if any, goes on running
PopFrame ==
    /\ status \in {"returned", "ended"}
    /\ fs # <<>>
    /\ fs' = Tail(fs)
    /\ status' = IF Tail(fs) = <<>> THEN "done" ELSE "running"
    /\ lastOp' = -2
    /\ UNCHANGED <<err, pre, heap, statics, MainThread, parserVars, globalVars, cliVars>>

Next == Step \/ EndOfCode \/ PopFrame

Spec == Init /\ [][Next]_vars

SpecArith == InitArith /\ [][Next]_vars

SpecObj == InitObj /\ [][Next]_vars

\* whoever ran the frame notices that runFrame has returned and pops the frame
FairSpec == Spec /\ WF_vars(EndOfCode) /\ WF_vars(PopFrame)

\* ------------------------------------------------------------------------
\* Properties of the return opcodes and of runFrame's loop
\* ------------------------------------------------------------------------

\* the frame that executed the last instruction, before and after it
Before == pre[1]
After == fs[1]

\* the operand stack of frame f holds the slots of frame g, then xs on top
HoldsOnTop(f, g, xs) ==
    /\ f.TOS = g.TOS + Len(xs)
    /\ \A i \in 0..g.TOS : At(f.OpStack, i) = At(g.OpStack, i)
    /\ \A i \in 1..Len(xs) : At(f.OpStack, g.TOS + i) = xs[i]

\* C1: when the top frame executes IRETURN (LRETURN) with an int (a long in two
\* slots) on top of its operand stack and a caller frame beneath, runFrame
\* returns nil and the caller's operand stack is what it was with the returned
\* value pushed on top, in one slot for IRETURN and in two for LRETURN.
C1_ReturnValueOnCaller ==
    \A n \in 1..2 :
       ( /\ lastOp = (IF n = 1 THEN opcodes.IRETURN ELSE opcodes.LRETURN)
         /\ Len(pre) >= 2
         /\ Before.TOS >= n - 1
         /\ At(Before.OpStack, Before.TOS).t = "int64" )
       => /\ status = "returned"
          /\ err = NoError
          /\ HoldsOnTop(fs[2], pre[2], [i \in 1..n |-> At(Before.OpStack, Before.TOS)])

\* C1 witness: LRETURN has put the long -200 in two slots above the caller's 20
C1_Witness ==
    /\ lastOp = opcodes.LRETURN
    /\ status = "returned"
    /\ Len(fs) = 2
    /\ pre[2].TOS = 0
    /\ fs[2].TOS = 2
    /\ At(fs[2].OpStack, 0) = J(20)
    /\ At(fs[2].OpStack, 1) = J(-200)
    /\ At(fs[2].OpStack, 2) = J(-200)

\* C2 as stated: once a return opcode has executed, the returning frame is gone
\* from the frame stack (one frame fewer, the caller on top) with no pop of the
\* frame stack by whoever ran the frame.
C2_ReturnDiscardsFrame ==
    (lastOp \in ReturnOps /\ status = "returned") => Len(fs) = Len(pre) - 1

\* C2 amended: a return opcode leaves the returning frame on top of the frame
\* stack (same depth, same frame: its bytecode and PC unchanged unless a pop
\* underflowed and rewrote them to the stack-underflow encoding); the frame is
\* discarded by the pop of whoever ran it, after which the stack is one frame
\* shorter and the former caller, holding the returned value, is the top frame.
C2_FrameLeftForRunner ==
    /\ (lastOp \in ReturnOps /\ status = "returned")
          => /\ Len(fs) = Len(pre)
             /\ \/ After.Meth = Before.Meth /\ After.PC = Before.PC
                \/ After.Meth = ErrorBytes(Before, 2) /\ After.PC = 0
    /\ (lastOp = -2 /\ pre # <<>> /\ At(Before.Meth, Before.PC) \in ReturnOps)
          => /\ Len(fs) = Len(pre) - 1
             /\ Len(pre) >= 2 => fs[1].Meth = pre[2].Meth /\ fs[1].TOS >= pre[2].TOS

\* C2 witness: IRETURN has executed and both frames are still on the frame stack
C2_Witness ==
    /\ lastOp = opcodes.IRETURN
    /\ status = "returned"
    /\ Len(pre) = 2
    /\ Len(fs) = 2
    /\ fs[2].TOS = 1

SlotDelta(op) ==
    CASE op \in {opcodes.LADD, opcodes.LSUB, opcodes.LMUL, opcodes.LDIV, opcodes.LREM,
                 opcodes.LAND, opcodes.LOR, opcodes.LXOR} -> -2
      [] op \in {opcodes.LSHL, opcodes.LSHR, opcodes.LUSHR} -> -1
      [] op = opcodes.LCMP -> -3
      [] op \in {opcodes.L2I, opcodes.L2F} -> -1
      [] op = opcodes.L2D -> 0
      [] op \in {opcodes.LCONST_0, opcodes.LCONST_1, opcodes.LDC2_W} -> 2
      [] op \in {opcodes.LDC, opcodes.LDC_W} -> 1

SlotOps == LongBinary \cup LongShift
           \cup {opcodes.L2I, opcodes.L2F, opcodes.L2D, opcodes.LCONST_0, opcodes.LCONST_1,
                 opcodes.LDC, opcodes.LDC_W, opcodes.LDC2_W}

\* C4: an opcode of the long, conversion and constant families that finds its
\* operands on the stack and room for its result, and raises no error, changes
\* the stack depth by the difference of the slot widths of its result and its
\* operands (long and double two slots, int and float one); a two-slot result
\* is on the stack in both of its slots.
C4_SlotWidths ==
    ( /\ lastOp \in SlotOps
      /\ status = "running"
      /\ Before.TOS + 1 >= Len(Kinds(lastOp))
      /\ Before.TOS + SlotDelta(lastOp) < Len(Before.OpStack) )
    => /\ After.TOS = Before.TOS + SlotDelta(lastOp)
       /\ \A i \in 0..(Before.TOS - Len(Kinds(lastOp))) :
             At(After.OpStack, i) = At(Before.OpStack, i)
       /\ lastOp \notin {opcodes.LCMP, opcodes.L2I, opcodes.L2F, opcodes.LDC, opcodes.LDC_W}
             => At(After.OpStack, After.TOS) = At(After.OpStack, After.TOS - 1)

\* C4 witness: LCMP has replaced two longs (four slots) by one int
C4_Witness ==
    /\ lastOp = opcodes.LCMP
    /\ status = "running"
    /\ Before.TOS = 3
    /\ After.TOS = 0
    /\ At(After.OpStack, 0) = J(-1)

ArgX == At(Before.OpStack, 0).v
ArgY == At(Before.OpStack, Before.TOS).v
Top == At(After.OpStack, After.TOS).v

\* C6 as stated: IUSHR is a logical shift of the 32-bit value: the result is
\* ((x mod 2^32) div 2^(s mod 32)) as an int, 536870887 for -200 and 3, and x
\* itself for a shift count of 0.
C6_IushrIsLogical ==
    (lastOp = opcodes.IUSHR /\ status = "running")
    => /\ After.TOS = 0
       /\ Int32(Top) = Int32(Shr64(ArgX \cap (0..31), N(ArgY) % 32))
       /\ (ArgX = W(-200) /\ ArgY = W(3)) => Top = W(536870887)
       /\ N(ArgY) % 32 = 0 => Top = ArgX

\* C7: IUSHR of a negative int shifts the operand's magnitude: the result is
\* |x| div 2^(s mod 32), the same as IUSHR of |x|; -200 and 3 give 25, left in
\* one slot.
C7_IushrOfNegative ==
    (lastOp = opcodes.IUSHR /\ status = "running" /\ 63 \in ArgX)
    => LET s == N(ArgY) % 32
       IN /\ After.TOS = 0
          /\ Top = IUSHR(Neg64(ArgX), ArgY)
          /\ Top = IF ArgX = MinInt32 THEN Shr64({31}, s)
                   ELSE IF s = 31 THEN {}
                   ELSE W((-N(ArgX)) \div Pow2(s))
          /\ (ArgX = W(-200) /\ ArgY = W(3)) => Top = W(25)

\* C7 witness: IUSHR of -200 by 3 has left 25 in the only slot
C7_Witness ==
    /\ lastOp = opcodes.IUSHR
    /\ status = "running"
    /\ ArgX = W(-200)
    /\ ArgY = W(3)
    /\ After.TOS = 0
    /\ Top = W(25)

\* floor(n / 2^s) of a number in the int range, 0 <= s <= 63
FloorShift(n, s) == IF s >= 31 THEN (IF n < 0 THEN -1 ELSE 0) ELSE n \div Pow2(s)

IntShifts == {opcodes.ISHL, opcodes.ISHR, opcodes.IUSHR}

\* C8: an int shift uses only the low 5 bits of its count and a long shift only
\* the low 6 (counts s, s mod 32 and s + 32, resp. s mod 64 and s + 64, give one
\* result); ISHR and LSHR keep the sign, ISHR(x, s) being floor(x / 2^s);
\* ISHL of 22 by 3 is 176 and ISHR of -200 by 3 is -25.
C8_ShiftCounts ==
    /\ (lastOp \in IntShifts /\ status = "running")
          => /\ Top = BinOp(lastOp, ArgX, W(N(ArgY) % 32))
             /\ Top = BinOp(lastOp, ArgX, Add64(ArgY, W(32)))
    /\ (lastOp \in LongShift /\ status = "running")
          => /\ Top = BinOp(lastOp, ArgX, W(N(ArgY) % 64))
             /\ Top = BinOp(lastOp, ArgX, Add64(ArgY, W(64)))
    /\ (lastOp = opcodes.ISHR /\ status = "running")
          => FitsInt32(Top) /\ N(Top) = FloorShift(N(ArgX), N(ArgY) % 32)
    /\ (lastOp = opcodes.LSHR /\ status = "running")
          => /\ 63 \in Top <=> 63 \in ArgX
             /\ FitsInt32(ArgX) => Top = W(FloorShift(N(ArgX), N(ArgY) % 64))
    /\ (lastOp = opcodes.ISHL /\ ArgX = W(22) /\ ArgY = W(3)) => Top = W(176)
    /\ (lastOp = opcodes.ISHR /\ ArgX = W(-200) /\ ArgY = W(3)) => Top = W(-25)

\* C8 witness: ISHR of -200 by 35 has given -25, as by 3
C8_Witness ==
    /\ lastOp = opcodes.ISHR
    /\ status = "running"
    /\ ArgX = W(-200)
    /\ ArgY = W(35)
    /\ Top = W(-25)

\* arithmetic modulo 2^32 on numbers of the int range, computed on 16-bit halves
Lo16(n) == n % 65536
Hi16(n) == n \div 65536
Wrap32(h, l) ==
    (IF h % 65536 >= 32768 THEN (h % 65536) - 65536 ELSE h % 65536) * 65536 + (l % 65536)
RefAdd(x, y) ==
    LET l == Lo16(x) + Lo16(y) IN Wrap32(Hi16(x) + Hi16(y) + (l \div 65536), l)
RefSub(x, y) ==
    LET l == Lo16(x) - Lo16(y) IN Wrap32((Hi16(x) - Hi16(y)) + (l \div 65536), l)
RefMul(x, y) ==
    LET p0 == (Lo16(x) % 256) * Lo16(y)
        p1 == (Lo16(x) \div 256) * Lo16(y)
        l == Lo16(p0) + (p1 % 256) * 256
        h == Hi16(p0) + (p1 \div 256) + (l \div 65536)
    IN Wrap32((h % 65536) + ((Hi16(x) * Lo16(y)) % 65536) + ((Lo16(x) * Hi16(y)) % 65536), l)

\* C9: IADD, ISUB, IMUL and INEG leave one int in [-2^31, 2^31 - 1], equal to
\* the mathematical result modulo 2^32; IADD is commutative, ISUB undoes IADD
\* (ISUB(IADD(x, y), y) = x) and INEG undoes INEG.
C9_IntArithmeticWraps ==
    /\ (lastOp \in {opcodes.IADD, opcodes.ISUB, opcodes.IMUL} /\ status = "running")
          => /\ After.TOS = 0
             /\ FitsInt32(Top)
             /\ N(Top) = CASE lastOp = opcodes.IADD -> RefAdd(N(ArgX), N(ArgY))
                            [] lastOp = opcodes.ISUB -> RefSub(N(ArgX), N(ArgY))
                            [] lastOp = opcodes.IMUL -> RefMul(N(ArgX), N(ArgY))
    /\ (lastOp = opcodes.IADD /\ status = "running")
          => Top = IADD(ArgY, ArgX) /\ ISUB(Top, ArgY) = ArgX
    /\ (lastOp = opcodes.INEG /\ status = "running")
          => /\ After.TOS = 0
             /\ FitsInt32(Top)
             /\ N(Top) = RefSub(0, N(ArgX))
             /\ INEG(Top) = ArgX

\* C9 witness: IADD of 2^31 - 1 and 1 has wrapped to -2^31
C9_Witness ==
    /\ lastOp = opcodes.IADD
    /\ status = "running"
    /\ ArgX = MaxInt32
    /\ ArgY = W(1)
    /\ Top = MinInt32

\* the quotient truncated toward zero, of numbers whose magnitudes fit an int
TruncDiv(n, d) ==
    LET q == (IF n < 0 THEN -n ELSE n) \div (IF d < 0 THEN -d ELSE d)
    IN IF (n < 0) # (d < 0) THEN -q ELSE q

DivOps == {opcodes.IDIV, opcodes.IREM, opcodes.LDIV, opcodes.LREM}

\* C10: IDIV, IREM, LDIV and LREM with a zero divisor pop their operands, push
\* nothing and end runFrame with the ArithmeticException "divide by zero"; with
\* a non-zero divisor they push the quotient truncated toward zero, resp. the
\* remainder, which has the dividend's sign and satisfies x = q * y + r with
\* |r| < |y|.
C10_DivideByZero ==
    lastOp \in DivOps
    => IF ArgY = {}
       THEN /\ status = "error"
            /\ err.msg = "java.lang.ArithmeticException: divide by zero"
            /\ After.TOS = Before.TOS - Len(Kinds(lastOp))
            /\ After.PC = Before.PC
       ELSE LET isInt == lastOp \in {opcodes.IDIV, opcodes.IREM}
                isDiv == lastOp \in {opcodes.IDIV, opcodes.LDIV}
            IN /\ status = "running"
               /\ After.TOS = (IF isInt THEN 0 ELSE 1)
               /\ \A x \in {ArgX}, y \in {ArgY} :
                  \A q \in {IF isDiv THEN Top ELSE Div64(x, y)} :
                  \A r \in {IF isDiv THEN Rem64(x, y) ELSE Top} :
                  \A m \in {Mul64(q, y)} :
                  \A back \in {Add64(m, r)} :
                     /\ (IF isInt THEN Int32(back) ELSE back) = x
                     /\ ULt64(Abs64(r), Abs64(y))
                     /\ r = {} \/ (63 \in r <=> 63 \in x)
               /\ (FitsInt32(ArgX) /\ FitsInt32(ArgY) /\ MinInt32 \notin {ArgX, ArgY})
                     => LET t == TruncDiv(N(ArgX), N(ArgY))
                        IN Top = W(IF isDiv THEN t ELSE N(ArgX) - t * N(ArgY))

\* C10 witness: LREM of 6 by 0 has ended with the error, the four slots popped
C10_Witness ==
    /\ lastOp = opcodes.LREM
    /\ ArgX = W(6)
    /\ ArgY = {}
    /\ status = "error"
    /\ err.msg = "java.lang.ArithmeticException: divide by zero"
    /\ After.TOS = -1

\* ------------------------------------------------------------------------
\* C11: LCMP
\* ------------------------------------------------------------------------

\* a 64-bit word as four 16-bit digits, the most significant one signed, and
\* the signed order of two words read off their digits
Digits(x) ==
    <<N(Sar64(x, 48)), SumPow2(Shr64(x, 32) \cap (0..15)),
      SumPow2(Shr64(x, 16) \cap (0..15)), SumPow2(x \cap (0..15))>>
RefLess(x, y) ==
    \E k \in 1..4 :
        /\ Digits(x)[k] < Digits(y)[k]
        /\ \A j \in 1..(k - 1) : Digits(x)[j] = Digits(y)[j]

\* C11: LCMP on two longs (value1 pushed first, value2 on top, four slots)
\* leaves one int slot in their place: -1 if value1 < value2, 0 if they are
\* equal, 1 if value1 > value2, in the signed 64-bit order.
C11_LcmpSign ==
    (lastOp = opcodes.LCMP /\ status = "running")
    => /\ Before.TOS = 3
       /\ After.TOS = 0
       /\ At(After.OpStack, 0).t = "int64"
       /\ \A i \in 1..3 : At(After.OpStack, i) = At(Before.OpStack, i)
       /\ Top = (IF RefLess(ArgX, ArgY) THEN W(-1)
                 ELSE IF RefLess(ArgY, ArgX) THEN W(1) ELSE W(0))
       /\ (Top = W(0)) = (ArgX = ArgY)

\* C11 witness: -2^63 compared with 1 gives -1
C11_Witness ==
    /\ lastOp = opcodes.LCMP
    /\ status = "running"
    /\ ArgX = {63}
    /\ ArgY = W(1)
    /\ After.TOS = 0
    /\ Top = W(-1)

\* ------------------------------------------------------------------------
\* C12: instruction lengths, SIPUSH and BIPUSH
\* ------------------------------------------------------------------------

\* the encoded length of an instruction: the opcode and its operand bytes
EncodedLength(op) ==
    CASE op \in StackOps -> 1
      [] op \in {opcodes.ILOAD, opcodes.LLOAD, opcodes.BIPUSH, opcodes.LDC} -> 2
      [] op \in {opcodes.SIPUSH, opcodes.LDC_W, opcodes.LDC2_W} -> 3

\* the instruction just executed went through: no error, no stack error armed
Completed(ops) == lastOp \in ops /\ status = "running" /\ After.Meth = Before.Meth

\* the signed number of `bits` bits that is congruent to n
Signed(n, bits) ==
    CHOOSE v \in (0 - Pow2(bits - 1))..(Pow2(bits - 1) - 1) : (v - n) % Pow2(bits) = 0

\* C12: an instruction that is executed through moves the PC by its encoded
\* length (1 without operands, 2 for ILOAD, LLOAD, BIPUSH, 3 for SIPUSH);
\* SIPUSH pushes the signed 16-bit big-endian value of its operand bytes and
\* BIPUSH the sign-extended byte.
C12_PcAdvancesByLength ==
    /\ Completed(StackOps \cup {opcodes.ILOAD, opcodes.LLOAD, opcodes.BIPUSH, opcodes.LDC,
                                opcodes.SIPUSH, opcodes.LDC_W, opcodes.LDC2_W})
          => After.PC = Before.PC + EncodedLength(lastOp)
    /\ Completed({opcodes.SIPUSH})
          => /\ After.TOS = Before.TOS + 1
             /\ At(After.OpStack, After.TOS)
                   = J(Signed(At(Before.Meth, Before.PC + 1) * 256
                              + At(Before.Meth, Before.PC + 2), 16))
    /\ Completed({opcodes.BIPUSH})
          => /\ After.TOS = Before.TOS + 1
             /\ At(After.OpStack, After.TOS) = J(Signed(At(Before.Meth, Before.PC + 1), 8))
    /\ Completed({opcodes.ILOAD})
          => /\ After.TOS = Before.TOS + 1
             /\ At(After.OpStack, After.TOS)
                   = At(Before.Locals, At(Before.Meth, Before.PC + 1))

\* C12 witness: SIPUSH 0xFF 0x02 at PC 0 has pushed -254 and left the PC at 3
C12_Witness ==
    /\ Completed({opcodes.SIPUSH})
    /\ Before.PC = 0
    /\ At(Before.Meth, 1) = 255
    /\ After.PC = 3
    /\ At(After.OpStack, After.TOS) = J(-254)

\* ------------------------------------------------------------------------
\* C13: INSTANCEOF
\* ------------------------------------------------------------------------

\* the value on top of the operand stack before and after the last instruction
TopBefore == At(Before.OpStack, Before.TOS)
TopAfter == At(After.OpStack, After.TOS)

\* the constant-pool entry the last instruction names, if it has operand bytes
\* and they are an index into the constant pool
NamesEntry == Before.PC + 2 < Len(Before.Meth) /\ CpSlot(Before) < Len(CP)
EntryNamed == At(CP, CpSlot(Before))

\* C13: INSTANCEOF replaces the reference on top of the stack by one int: 0
\* for nil and for Null, whatever its operand bytes are (or are not); for an
\* object, 1 if its class is the class of the Class-ref operand or has it as a
\* superclass, and 0 otherwise.
C13_Instanceof ==
    (lastOp = opcodes.INSTANCEOF /\ Before.TOS >= 0)
    => /\ TopBefore \in {Nil, Null}
             => /\ status = "running"
                /\ After.TOS = Before.TOS
                /\ TopAfter = J(0)
       /\ (TopBefore.t = "object" /\ NamesEntry /\ EntryNamed.Type = "ClassRef")
             => /\ status = "running"
                /\ After.TOS = Before.TOS
                /\ TopAfter =
                      J(IF \/ heap[Only(TopBefore.v)].Klass = EntryNamed.val
                           \/ EntryNamed.val = "java/lang/Object"
                        THEN 1 ELSE 0)
       /\ status = "running"
             => \A i \in 0..(Before.TOS - 1) : At(After.OpStack, i) = At(Before.OpStack, i)

\* C13 witness: a String object against the Class-ref of java/lang/String gives 1
C13_Witness ==
    /\ lastOp = opcodes.INSTANCEOF
    /\ Before.TOS >= 0
    /\ TopBefore = Ref(1)
    /\ heap[1].Klass = "java/lang/String"
    /\ NamesEntry
    /\ EntryNamed = [Type |-> "ClassRef", val |-> "java/lang/String"]
    /\ TopAfter = J(1)

\* ------------------------------------------------------------------------
\* C14: PUTFIELD
\* ------------------------------------------------------------------------

\* value slots PUTFIELD consumes for a field of type tag t: two for a long or
\* a double (static or not), one otherwise
ValueSlots(t) == IF t[Len(t)] \in {"D", "J"} THEN 2 ELSE 1

\* the step is a PUTFIELD on a Field-ref, with the object reference below the
\* n value slots of the field named
PutFieldOf(id, k, n) ==
    /\ lastOp' = opcodes.PUTFIELD
    /\ fs[1].PC + 2 < Len(fs[1].Meth)
    /\ CpSlot(fs[1]) < Len(CP)
    /\ At(CP, CpSlot(fs[1])) = [Type |-> "FieldRef", val |-> k - 1]
    /\ k \in 1..Len(heap[id].Fields)
    /\ n = ValueSlots(heap[id].Fields[k].Ftype)
    /\ fs[1].TOS >= n
    /\ At(fs[1].OpStack, fs[1].TOS - n) = Ref(id)

\* C14: PUTFIELD stores the value on top of the stack into the field only when
\* the field's tag does not start with X, and then consumes the object
\* reference and one value slot (two for a long or double); on a tag starting
\* with X it fails with "invalid attempt to update a static variable" and
\* every field of every object keeps its previous value.
C14_PutField ==
    [][\A id \in 1..Len(heap) : \A k \in 1..1 : \A n \in 1..2 :
          PutFieldOf(id, k, n)
          => IF Head(heap[id].Fields[k].Ftype) = "X"
             THEN /\ status' = "error"
                  /\ err'.msg = "PUTFIELD: invalid attempt to update a static variable"
                  /\ heap' = heap
             ELSE /\ status' = "running"
                  /\ heap' = [heap EXCEPT ![id].Fields[k].Fvalue = At(fs[1].OpStack, fs[1].TOS)]
                  /\ fs'[1].TOS = fs[1].TOS - n - 1
                  /\ fs'[1].PC = fs[1].PC + 3]_vars

\* C14 witness: PUTFIELD of 26 on the static int field that holds 42 has failed
C14_Witness ==
    /\ lastOp = opcodes.PUTFIELD
    /\ Before.TOS = 1
    /\ Before.OpStack[1] = Ref(4)
    /\ Before.OpStack[2] = J(26)
    /\ heap[4].Fields[1] = [Ftype |-> <<"X", "I">>, Fvalue |-> J(42)]
    /\ status = "error"
    /\ err.msg = "PUTFIELD: invalid attempt to update a static variable"

\* ------------------------------------------------------------------------
\* C15: constant-pool entries of the wrong type
\* ------------------------------------------------------------------------

\* the opcodes that resolve a constant-pool entry and the entry type and error
\* text the tests give for each
ResolvingOps ==
    {<<opcodes.INVOKEVIRTUAL, "MethodRef", "INVOKEVIRTUAL: Expected a method ref, but got">>,
     <<opcodes.NEW_, "ClassRef", "NEW: Invalid type for new object">>,
     <<opcodes.PUTFIELD, "FieldRef", "PUTFIELD: Expected a field ref, but got">>,
     <<opcodes.PUTSTATIC, "FieldRef", "PUTSTATIC: Expected a field ref, but got">>}

\* C15: when the constant-pool entry named by INVOKEVIRTUAL is not a
\* Method-ref, by NEW not a Class-ref, or by PUTFIELD or PUTSTATIC not a
\* Field-ref, the instruction fails with its error text: no frame is pushed,
\* nothing is pushed on or popped from the operand stack, and no object or
\* static is changed.
C15_WrongCpType ==
    [][\A o \in ResolvingOps :
          (/\ lastOp' = o[1]
           /\ fs[1].PC + 2 < Len(fs[1].Meth)
           /\ CpSlot(fs[1]) < Len(CP)
           /\ At(CP, CpSlot(fs[1])).Type # o[2])
          => /\ status' = "error"
             /\ err'.msg = o[3]
             /\ Len(fs') = Len(fs)
             /\ fs'[1].TOS = fs[1].TOS
             /\ fs'[1].OpStack = fs[1].OpStack
             /\ Tail(fs') = Tail(fs)
             /\ heap' = heap
             /\ statics' = statics]_vars

\* C15 witness: INVOKEVIRTUAL naming the UTF8 entry 1 has failed
C15_Witness ==
    /\ lastOp = opcodes.INVOKEVIRTUAL
    /\ Before.PC + 2 < Len(Before.Meth)
    /\ CpSlot(Before) = 1
    /\ At(CP, 1).Type # "MethodRef"
    /\ status = "error"
    /\ err.msg = "INVOKEVIRTUAL: Expected a method ref, but got"
    /\ Len(fs) = Len(pre)

\* ------------------------------------------------------------------------
\* C16: invalid bytecode
\* ------------------------------------------------------------------------

\* the opcodes runFrame decodes
DecodedOps == {opcodes[k] : k \in DOMAIN opcodes}

\* C16: a byte at the PC that is no opcode runFrame decodes (252, say) makes
\* it fail with the diagnostic "Invalid bytecode" naming that byte and that PC,
\* the frame left as it was, and no instruction is executed after it.
C16_InvalidBytecode ==
    [][/\ (lastOp' >= 0 /\ lastOp' \notin DecodedOps)
             => /\ status' = "error"
                /\ err' = [msg |-> "Invalid bytecode", pc |-> fs[1].PC,
                           op |-> At(fs[1].Meth, fs[1].PC)]
                /\ fs' = fs
       /\ (status = "error" /\ err.msg = "Invalid bytecode") => FALSE]_vars

\* C16 witness: the byte 252 after a first instruction has been reported
C16_Witness ==
    /\ lastOp = InvalidOpcode
    /\ Before.PC > 0
    /\ At(Before.Meth, Before.PC) = 252
    /\ status = "error"
    /\ err = [msg |-> "Invalid bytecode", pc |-> Before.PC, op |-> 252]

\* ------------------------------------------------------------------------
\* The stack-error routines on their own: formatStackOverflowError or
\* formatStackUnderflowError is called on a frame a handler is working on,
\* and the frame is then run
\* ------------------------------------------------------------------------

\* the PCs of the frames: small ones, 258, and the ends of the 16-bit range
ErrorPCs == {0, 1, 4, 258, 32768, 65535, 65536, 65541}

\* the bytecode of the frames: of 0, 1, 4, 5 and 7 bytes
ErrorMeths ==
    {<<>>, <<opcodes.POP>>, <<opcodes.NOP, opcodes.BIPUSH, 6, opcodes.RETURN>>,
     <<opcodes.SIPUSH, 1, 2, opcodes.POP, opcodes.RETURN>>,
     <<opcodes.NOP, opcodes.NOP, opcodes.NOP, opcodes.NOP, opcodes.NOP, opcodes.BIPUSH, 6>>}

InitStackError ==
    /\ \E meth \in ErrorMeths, p \in ErrorPCs, stk \in InitialStacks :
          fs = <<[CreateFrame(meth, MaxStack) EXCEPT !.PC = p,
                                                     !.OpStack = stk,
                                                     !.TOS = DepthOf(stk) - 1,
                                                     !.Locals = TestLocals]>>
    /\ status = "handler"
    /\ err = NoError
    /\ lastOp = -1
    /\ pre = fs
    /\ heap = <<>>
    /\ statics = <<>>
    /\ MainThread = CreateThread
    /\ NotParsing
    /\ NoGlobals
    /\ NoCli

\* a handler's push finds the operand stack full (lastOp -3)
FormatOverflow ==
    /\ status = "handler"
    /\ fs' = <<formatStackOverflowError(fs[1])>> \o Tail(fs)
    /\ status' = "running"
    /\ lastOp' = -3
    /\ pre' = fs
    /\ UNCHANGED <<err, heap, statics, MainThread, parserVars, globalVars, cliVars>>

\* a handler's pop finds the operand stack empty (lastOp -4)
FormatUnderflow ==
    /\ status = "handler"
    /\ fs' = <<formatStackUnderflowError(fs[1])>> \o Tail(fs)
    /\ status' = "running"
    /\ lastOp' = -4
    /\ pre' = fs
    /\ UNCHANGED <<err, heap, statics, MainThread, parserVars, globalVars, cliVars>>

NextStackError == FormatOverflow \/ FormatUnderflow \/ Step

SpecStackError == InitStackError /\ [][NextStackError]_vars

\* ------------------------------------------------------------------------
\* C17: the encoding of a stack error
\* ------------------------------------------------------------------------

\* C17: after formatStackOverflowError (formatStackUnderflowError) on a frame
\* whose PC is p, the PC is 0 and the code starts with NOP, IMPDEP2, 0x01
\* (0x02) and p as a big-endian 16-bit value, which is p itself for
\* 0 <= p < 2^16; a code array of fewer than 5 bytes has become one of 5
\* bytes, the bytes after the fifth are as they were, and the operand stack,
\* TOS and the locals are untouched.
C17_StackErrorEncoding ==
    lastOp \in {-3, -4}
    => /\ After.PC = 0
       /\ SubSeq(After.Meth, 1, 3) =
             <<opcodes.NOP, opcodes.IMPDEP2, IF lastOp = -3 THEN 1 ELSE 2>>
       /\ After.Meth[4] \in 0..255
       /\ After.Meth[5] \in 0..255
       /\ \E k \in 0..1 : After.Meth[4] * 256 + After.Meth[5] + k * 65536 = Before.PC
       /\ Before.PC < 65536 => After.Meth[4] * 256 + After.Meth[5] = Before.PC
       /\ Len(After.Meth) = IF Len(Before.Meth) < 5 THEN 5 ELSE Len(Before.Meth)
       /\ \A i \in 6..Len(Before.Meth) : After.Meth[i] = Before.Meth[i]
       /\ After.OpStack = Before.OpStack
       /\ After.TOS = Before.TOS
       /\ After.Locals = Before.Locals

\* C17 witness: an underflow at PC 258 in a code array of 7 bytes is encoded
\* as 0x01 0x02
C17_Witness ==
    /\ lastOp = -4
    /\ Before.PC = 258
    /\ Len(Before.Meth) = 7
    /\ After.Meth = <<0, 255, 2, 1, 2, opcodes.BIPUSH, 6>>
    /\ After.PC = 0

\* ------------------------------------------------------------------------
\* C18: stack errors are reported through IMPDEP2
\* ------------------------------------------------------------------------

\* the last instruction, one without operand bytes, has run into a stack error
\* of the given code in the frame it runs in: its push found the operand stack
\* full (1) or its pop found it empty (2), and runFrame goes on
StackErrorAt(code) ==
    /\ lastOp \in StackOps
    /\ status = "running"
    /\ Len(fs) = Len(pre)
    /\ fs[1].Meth # pre[1].Meth
    /\ SubSeq(fs[1].Meth, 1, 3) = <<opcodes.NOP, opcodes.IMPDEP2, code>>

\* C18: when a push finds the operand stack full, or a pop finds it empty, in
\* an instruction at PC p, the next instruction dispatched after the NOP at
\* byte 0 is IMPDEP2, which reports "stack overflow" for the push and "stack
\* underflow" for the pop, with the PC p.
C18_StackErrorReported ==
    [][\A code \in {1, 2} :
          StackErrorAt(code)
          => /\ lastOp' \in {opcodes.NOP, opcodes.IMPDEP2}
             /\ lastOp' = opcodes.IMPDEP2
                   => /\ status' = "error"
                      /\ err'.msg = (IF code = 1 THEN "stack overflow" ELSE "stack underflow")
                      /\ err'.pc = pre[1].PC]_vars

\* ------------------------------------------------------------------------
\* Native methods: MethodSignatures, checkKey, loadlib
\* ------------------------------------------------------------------------

\* A key is written as the sequence of its parts: the class name, ".", the
\* method name, "(", one part for each parameter descriptor, ")", and the
\* return descriptor when there is one. The characters '.', '(' and ')' that
\* separate the parts are parts of their own, so that what checkKey looks
\* for in the string is looked for among the parts.

\* what Load_Io_FileWriter assigns to MethodSignatures
Load_Io_FileWriter ==
    {[key |-> <<"java/io/FileWriter", ".", "<clinit>", "(", ")", "V">>,
      ParamSlots |-> 0, GFunction |-> "justReturn", NeedsContext |-> FALSE],
     [key |-> <<"java/io/FileWriter", ".", "<init>", "(", "Ljava/io/File;", ")", "V">>,
      ParamSlots |-> 1, GFunction |-> "initFileOutputStreamFile", NeedsContext |-> FALSE],
     [key |-> <<"java/io/FileWriter", ".", "<init>", "(", "Ljava/io/File;", "Z", ")", "V">>,
      ParamSlots |-> 1, GFunction |-> "initFileOutputStreamFileBoolean", NeedsContext |-> FALSE],
     [key |-> <<"java/io/FileWriter", ".", "<init>", "(", "Ljava/lang/String;", ")", "V">>,
      ParamSlots |-> 1, GFunction |-> "initFileOutputStreamString", NeedsContext |-> FALSE],
     [key |-> <<"java/io/FileWriter", ".", "<init>", "(", "Ljava/lang/String;", "Z", ")", "V">>,
      ParamSlots |-> 1, GFunction |-> "initFileOutputStreamStringBoolean", NeedsContext |-> FALSE],
     [key |-> <<"java/io/FileWriter", ".", "close", "(", ")", "V">>,
      ParamSlots |-> 0, GFunction |-> "osrClose", NeedsContext |-> FALSE],
     [key |-> <<"java/io/FileWriter", ".", "flush", "(", ")", "V">>,
      ParamSlots |-> 0, GFunction |-> "osrFlush", NeedsContext |-> FALSE],
     [key |-> <<"java/io/FileWriter", ".", "write", "(", "I", ")", "V">>,
      ParamSlots |-> 1, GFunction |-> "osrWriteOneChar", NeedsContext |-> FALSE],
     [key |-> <<"java/io/FileWriter", ".", "write", "(", "[C", "I", "I", ")", "V">>,
      ParamSlots |-> 3, GFunction |-> "WriteCharBuffer", NeedsContext |-> FALSE],
     [key |-> <<"java/io/FileWriter", ".", "write", "(", "Ljava/lang/String;", "I", "I", ")", "V">>,
      ParamSlots |-> 3, GFunction |-> "WriteStringBuffer", NeedsContext |-> FALSE],
     [key |-> <<"java/io/FileWriter", ".", "<init>", "(", "Ljava/io/File;", "Ljava/lang.String;", ")", "V">>,
      ParamSlots |-> 2, GFunction |-> "trapCharset", NeedsContext |-> FALSE],
     [key |-> <<"java/io/FileWriter", ".", "<init>", "(", "Ljava/io/FileDescriptor;", ")", "V">>,
      ParamSlots |-> 1, GFunction |-> "trapFileDescriptor", NeedsContext |-> FALSE],
     [key |-> <<"java/io/FileWriter", ".", "<init>", "(", "Ljava/io/File;", "Ljava/nio/charset/Charset;", ")", "V">>,
      ParamSlots |-> 2, GFunction |-> "trapCharset", NeedsContext |-> FALSE],
     [key |-> <<"java/io/FileWriter", ".", "<init>", "(", "Ljava/io/File;", "Ljava/nio/charset/Charset;", "Z", ")", "V">>,
      ParamSlots |-> 3, GFunction |-> "trapCharset", NeedsContext |-> FALSE],
     [key |-> <<"java/io/FileWriter", ".", "<init>", "(", "Ljava/lang/String;", "Ljava/nio/charset/Charset;", ")", "V">>,
      ParamSlots |-> 2, GFunction |-> "trapCharset", NeedsContext |-> FALSE],
     [key |-> <<"java/io/FileWriter", ".", "<init>", "(", "Ljava/lang/String;", "Ljava/nio/charset/Charset;", "Z", ")", "V">>,
      ParamSlots |-> 3, GFunction |-> "trapCharset", NeedsContext |-> FALSE]}

\* what Load_Io_PrintStream assigns to MethodSignatures
Load_Io_PrintStream ==
    {[key |-> <<"java/io/PrintStream", ".", "println", "(", ")", "V">>,
      ParamSlots |-> 0, GFunction |-> "PrintlnV", NeedsContext |-> FALSE],
     [key |-> <<"java/io/PrintStream", ".", "println", "(", "Ljava/lang/String;", ")", "V">>,
      ParamSlots |-> 1, GFunction |-> "PrintlnString", NeedsContext |-> FALSE],
     [key |-> <<"java/io/PrintStream", ".", "println", "(", "B", ")", "V">>,
      ParamSlots |-> 1, GFunction |-> "PrintlnBIS", NeedsContext |-> FALSE],
     [key |-> <<"java/io/PrintStream", ".", "println", "(", "C", ")", "V">>,
      ParamSlots |-> 1, GFunction |-> "PrintlnChar", NeedsContext |-> FALSE],
     [key |-> <<"java/io/PrintStream", ".", "println", "(", "I", ")", "V">>,
      ParamSlots |-> 1, GFunction |-> "PrintlnBIS", NeedsContext |-> FALSE],
     [key |-> <<"java/io/PrintStream", ".", "println", "(", "S", ")", "V">>,
      ParamSlots |-> 1, GFunction |-> "PrintlnBIS", NeedsContext |-> FALSE],
     [key |-> <<"java/io/PrintStream", ".", "println", "(", "Z", ")", "V">>,
      ParamSlots |-> 1, GFunction |-> "PrintlnBoolean", NeedsContext |-> FALSE],
     [key |-> <<"java/io/PrintStream", ".", "println", "(", "J", ")", "V">>,
      ParamSlots |-> 2, GFunction |-> "PrintlnLong", NeedsContext |-> FALSE],
     [key |-> <<"java/io/PrintStream", ".", "println", "(", "D", ")", "V">>,
      ParamSlots |-> 2, GFunction |-> "PrintlnDoubleFloat", NeedsContext |-> FALSE],
     [key |-> <<"java/io/PrintStream", ".", "println", "(", "F", ")", "V">>,
      ParamSlots |-> 1, GFunction |-> "PrintlnDoubleFloat", NeedsContext |-> FALSE],
     [key |-> <<"java/io/PrintStream", ".", "println", "(", "Ljava/lang/Object;", ")", "V">>,
      ParamSlots |-> 1, GFunction |-> "PrintlnObject", NeedsContext |-> FALSE],
     [key |-> <<"java/io/PrintStream", ".", "print", "(", "Ljava/lang/String;", ")", "V">>,
      ParamSlots |-> 1, GFunction |-> "PrintString", NeedsContext |-> FALSE],
     [key |-> <<"java/io/PrintStream", ".", "print", "(", "B", ")", "V">>,
      ParamSlots |-> 1, GFunction |-> "PrintBIS", NeedsContext |-> FALSE],
     [key |-> <<"java/io/PrintStream", ".", "print", "(", "C", ")", "V">>,
      ParamSlots |-> 1, GFunction |-> "PrintChar", NeedsContext |-> FALSE],
     [key |-> <<"java/io/PrintStream", ".", "print", "(", "I", ")", "V">>,
      ParamSlots |-> 1, GFunction |-> "PrintBIS", NeedsContext |-> FALSE],
     [key |-> <<"java/io/PrintStream", ".", "print", "(", "S", ")", "V">>,
      ParamSlots |-> 1, GFunction |-> "PrintBIS", NeedsContext |-> FALSE],
     [key |-> <<"java/io/PrintStream", ".", "print", "(", "Z", ")", "V">>,
      ParamSlots |-> 1, GFunction |-> "PrintBoolean", NeedsContext |-> FALSE],
     [key |-> <<"java/io/PrintStream", ".", "print", "(", "J", ")", "V">>,
      ParamSlots |-> 2, GFunction |-> "PrintLong", NeedsContext |-> FALSE],
     [key |-> <<"java/io/PrintStream", ".", "print", "(", "D", ")", "V">>,
      ParamSlots |-> 2, GFunction |-> "PrintDouble", NeedsContext |-> FALSE],
     [key |-> <<"java/io/PrintStream", ".", "print", "(", "F", ")", "V">>,
      ParamSlots |-> 1, GFunction |-> "PrintFloat", NeedsContext |-> FALSE],
     [key |-> <<"java/io/PrintStream", ".", "print", "(", "Ljava/lang/Object;", ")", "V">>,
      ParamSlots |-> 1, GFunction |-> "PrintObject", NeedsContext |-> FALSE],
     [key |-> <<"java/io/PrintStream", ".", "printf", "(", "Ljava/lang/String;", "[Ljava/lang/Object;", ")", "Ljava/io/PrintStream;">>,
      ParamSlots |-> 2, GFunction |-> "Printf", NeedsContext |-> FALSE]}

\* what Load_Lang_Integer assigns to MethodSignatures
Load_Lang_Integer ==
    {[key |-> <<"java/lang/Integer", ".", "<clinit>", "(", ")", "V">>,
      ParamSlots |-> 0, GFunction |-> "justReturn", NeedsContext |-> FALSE],
     [key |-> <<"java/lang/Integer", ".", "byteValue", "(", ")", "B">>,
      ParamSlots |-> 0, GFunction |-> "integerByteValue", NeedsContext |-> FALSE],
     [key |-> <<"java/lang/Integer", ".", "decode", "(", "Ljava/lang/String;", ")", "Ljava/lang/Integer;">>,
      ParamSlots |-> 1, GFunction |-> "integerDecode", NeedsContext |-> FALSE],
     [key |-> <<"java/lang/Integer", ".", "doubleValue", "(", ")", "D">>,
      ParamSlots |-> 0, GFunction |-> "integerFloatDoubleValue", NeedsContext |-> FALSE],
     [key |-> <<"java/lang/Integer", ".", "floatValue", "(", ")", "F">>,
      ParamSlots |-> 0, GFunction |-> "integerFloatDoubleValue", NeedsContext |-> FALSE],
     [key |-> <<"java/lang/Integer", ".", "intValue", "(", ")", "I">>,
      ParamSlots |-> 0, GFunction |-> "integerIntLongValue", NeedsContext |-> FALSE],
     [key |-> <<"java/lang/Integer", ".", "longValue", "(", ")", "J">>,
      ParamSlots |-> 0, GFunction |-> "integerIntLongValue", NeedsContext |-> FALSE],
     [key |-> <<"java/lang/Integer", ".", "parseInt", "(", "Ljava/lang/String;", "I", ")", "I">>,
      ParamSlots |-> 2, GFunction |-> "integerParseInt", NeedsContext |-> FALSE],
     [key |-> <<"java/lang/Integer", ".", "valueOf", "(", "I", ")", "Ljava/lang/Integer;">>,
      ParamSlots |-> 1, GFunction |-> "integerValueOf", NeedsContext |-> FALSE],
     [key |-> <<"java/lang/Integer", ".", "toBinaryString", "(", "I", ")", "Ljava/lang/String;">>,
      ParamSlots |-> 1, GFunction |-> "integerToBinaryString", NeedsContext |-> FALSE],
     [key |-> <<"java/lang/Integer", ".", "toHexString", "(", "I", ")", "Ljava/lang/String;">>,
      ParamSlots |-> 1, GFunction |-> "integerToHexString", NeedsContext |-> FALSE],
     [key |-> <<"java/lang/Integer", ".", "toOctalString", "(", "I", ")", "Ljava/lang/String;">>,
      ParamSlots |-> 1, GFunction |-> "integerToOctalString", NeedsContext |-> FALSE],
     [key |-> <<"java/lang/Integer", ".", "toString", "(", ")", "Ljava/lang/String;">>,
      ParamSlots |-> 0, GFunction |-> "integerToString", NeedsContext |-> FALSE],
     [key |-> <<"java/lang/Integer", ".", "toString", "(", "I", ")", "Ljava/lang/String;">>,
      ParamSlots |-> 1, GFunction |-> "integerToStringI", NeedsContext |-> FALSE],
     [key |-> <<"java/lang/Integer", ".", "toUnsignedString", "(", "I", ")", "Ljava/lang/String;">>,
      ParamSlots |-> 1, GFunction |-> "integerToUnsignedString", NeedsContext |-> FALSE],
     [key |-> <<"java/lang/Integer", ".", "toUnsignedString", "(", "I", "I", ")", "Ljava/lang/String;">>,
      ParamSlots |-> 2, GFunction |-> "integerToUnsignedStringRadix", NeedsContext |-> FALSE]}

\* what Load_Lang_StackTraceELement assigns to MethodSignatures
Load_Lang_StackTraceELement ==
    {[key |-> <<"java/lang/StackTraceElement", ".", "of", "(", "Ljava/lang/Throwable;", "I", ")", "[Ljava/lang/StackTraceElement;">>,
      ParamSlots |-> 2, GFunction |-> "of", NeedsContext |-> TRUE],
     [key |-> <<"java/lang/StackTraceElement", ".", "initStackTraceElements", "(", "[Ljava/lang/StackTraceElement;", "Ljava/lang/Throwable;", ")", "V">>,
      ParamSlots |-> 2, GFunction |-> "initStackTraceElements", NeedsContext |-> FALSE]}

\* what Load_Traps assigns to MethodSignatures
Load_Traps ==
    {[key |-> <<"java/nio/charset/Charset", ".", "<clinit>", "(", ")">>,
      ParamSlots |-> 0, GFunction |-> "trapCharset", NeedsContext |-> FALSE],
     [key |-> <<"java/io/DefaultFileSystem", ".", "getFileSystem", "(", ")", "Ljava/io/FileSystem;">>,
      ParamSlots |-> 0, GFunction |-> "trapGetDefaultFileSystem", NeedsContext |-> FALSE],
     [key |-> <<"java/nio/channels/FileChannel", ".", "<clinit>", "(", ")">>,
      ParamSlots |-> 0, GFunction |-> "trapFileChannel", NeedsContext |-> FALSE],
     [key |-> <<"java/io/FileDescriptor", ".", "<clinit>", "(", ")">>,
      ParamSlots |-> 0, GFunction |-> "trapFileDescriptor", NeedsContext |-> FALSE],
     [key |-> <<"java/io/FileSystem", ".", "<clinit>", "(", ")">>,
      ParamSlots |-> 0, GFunction |-> "trapFileSystem", NeedsContext |-> FALSE]}

\* what the second Load_Traps of Traps.go assigns to MethodSignatures
Load_Traps_Later ==
    {[key |-> <<"java/io/DefaultFileSystem", ".", "getFileSystem", "(", ")", "Ljava/io/FileSystem;">>,
      ParamSlots |-> 0, GFunction |-> "trapGetDefaultFileSystem", NeedsContext |-> FALSE],
     [key |-> <<"java/io/FileDescriptor", ".", "<clinit>", "(", ")">>,
      ParamSlots |-> 0, GFunction |-> "trapFileDescriptor", NeedsContext |-> FALSE],
     [key |-> <<"java/io/FileSystem", ".", "<clinit>", "(", ")">>,
      ParamSlots |-> 0, GFunction |-> "trapFileSystem", NeedsContext |-> FALSE],
     [key |-> <<"java/nio/charset/Charset", ".", "<clinit>", "(", ")">>,
      ParamSlots |-> 0, GFunction |-> "trapCharset", NeedsContext |-> FALSE],
     [key |-> <<"java/nio/channels/FileChannel", ".", "<clinit>", "(", ")">>,
      ParamSlots |-> 0, GFunction |-> "trapFileChannel", NeedsContext |-> FALSE],
     [key |-> <<"java/io/BufferedReader", ".", "<clinit>", "(", ")">>,
      ParamSlots |-> 0, GFunction |-> "trapReader", NeedsContext |-> FALSE],
     [key |-> <<"java/io/CharArrayReader", ".", "<clinit>", "(", ")">>,
      ParamSlots |-> 0, GFunction |-> "trapReader", NeedsContext |-> FALSE],
     [key |-> <<"java/io/FilterReader", ".", "<clinit>", "(", ")">>,
      ParamSlots |-> 0, GFunction |-> "trapReader", NeedsContext |-> FALSE],
     [key |-> <<"java/io/PipedReader", ".", "<clinit>", "(", ")">>,
      ParamSlots |-> 0, GFunction |-> "trapReader", NeedsContext |-> FALSE],
     [key |-> <<"java/io/StringReader", ".", "<clinit>", "(", ")">>,
      ParamSlots |-> 0, GFunction |-> "trapReader", NeedsContext |-> FALSE],
     [key |-> <<"java/io/BufferedWriter", ".", "<clinit>", "(", ")">>,
      ParamSlots |-> 0, GFunction |-> "trapWriter", NeedsContext |-> FALSE],
     [key |-> <<"java/io/CharArrayWriter", ".", "<clinit>", "(", ")">>,
      ParamSlots |-> 0, GFunction |-> "trapWriter", NeedsContext |-> FALSE],
     [key |-> <<"java/io/FilterWriter", ".", "<clinit>", "(", ")">>,
      ParamSlots |-> 0, GFunction |-> "trapWriter", NeedsContext |-> FALSE],
     [key |-> <<"java/io/PipedWriter", ".", "<clinit>", "(", ")">>,
      ParamSlots |-> 0, GFunction |-> "trapWriter", NeedsContext |-> FALSE],
     [key |-> <<"java/io/PrintWriter", ".", "<clinit>", "(", ")">>,
      ParamSlots |-> 0, GFunction |-> "trapWriter", NeedsContext |-> FALSE],
     [key |-> <<"java/io/StringWriter", ".", "<clinit>", "(", ")">>,
      ParamSlots |-> 0, GFunction |-> "trapWriter", NeedsContext |-> FALSE]}

\* MethodSignatures[key] = GMeth{...} for each of the entries
Assign(sigs, entries) ==
    [k \in DOMAIN sigs \cup {e.key : e \in entries} |->
        IF \E e \in entries : e.key = k
        THEN Only({[ParamSlots |-> e.ParamSlots, GFunction |-> e.GFunction,
                    NeedsContext |-> e.NeedsContext] :
                      e \in {x \in entries : x.key = k}})
        ELSE sigs[k]]

\* checkKey: the key holds ".", "(" and ")", and does not end with ")"
checkKey(key) ==
    IF \/ ~ (\E i \in DOMAIN key : key[i] = ".")
       \/ ~ (\E i \in DOMAIN key : key[i] = "(")
       \/ ~ (\E i \in DOMAIN key : key[i] = ")")
    THEN FALSE
    ELSE IF key[Len(key)] = ")"
         THEN FALSE
         ELSE TRUE

InternalException ==
    [exception |-> "InternalException",
     msg |-> "loadlib: at least one key was invalid"]

\* loadlib: every entry of libMeths is added to the table as an entry of
\* MType 'G', the ones with an invalid key too; an invalid key makes it
\* throw an InternalException after the loop
loadlib(tbl, libMeths) ==
    [tbl |-> [k \in DOMAIN tbl \cup DOMAIN libMeths |->
                IF k \in DOMAIN libMeths
                THEN [MType |-> "G", Meth |-> libMeths[k]]
                ELSE tbl[k]],
     thrown |-> IF \A k \in DOMAIN libMeths : checkKey(k)
                THEN NoException
                ELSE InternalException]

\* the operand stack of the method that invokes a native method, top first
CallerStack == <<"receiver", "arg1", "arg2", "arg3", "arg4">>

\* ------------------------------------------------------------------------
\* parse on class-file headers and on their truncations
\* ------------------------------------------------------------------------

\* the first four bytes: the magic number, and buffers that differ from it in
\* one byte or in all
Magics ==
    {<<202, 254, 186, 190>>, <<202, 254, 186, 189>>, <<203, 254, 186, 190>>,
     <<202, 0, 186, 190>>, <<202, 254, 187, 190>>, <<0, 0, 0, 0>>}

\* minor and major version: Java 8, 11, 12, and a major version of 256
Versions == {<<0, 0, 0, 52>>, <<0, 0, 0, 55>>, <<0, 0, 0, 56>>, <<0, 0, 1, 0>>}

\* constant-pool counts 0, 1, 2, 3, 258 and 65535, as two bytes
CpCounts == {<<0, 0>>, <<0, 1>>, <<0, 2>>, <<0, 3>>, <<1, 2>>, <<255, 255>>}

\* the buffers: a header, possibly followed by a byte, cut off at any length
Buffers ==
    {SubSeq(b, 1, n) : n \in 0..11,
                       b \in {m \o v \o c \o <<7>> : m \in Magics, v \in Versions,
                                                     c \in CpCounts}}

\* a u16 as two bytes, and the constant-pool entries as the class file has them
U2(n) == <<n \div 256, n % 256>>
Utf8Entry(s) == <<UTF8>> \o U2(Len(s)) \o s
ClassEntry(index) == <<ClassRef>> \o U2(index)
IntEntry == <<IntConst, 0, 0, 0, 42>>

\* the constant pool of the class files: 1 "A", 2 the class A, 3
\* "java/lang/Object", 4 the class java/lang/Object, 5 "", 6 a class of the
\* empty name, 7 an int, 8 a Class-ref whose name index is that of the int
TestPool ==
    Utf8Entry(<<65>>) \o ClassEntry(1) \o Utf8Entry(JavaLangObject) \o ClassEntry(3)
    \o Utf8Entry(<<>>) \o ClassEntry(5) \o IntEntry \o ClassEntry(7)

\* the u16 indexes of a list, one after the other
RECURSIVE U2s(_)
U2s(xs) == IF xs = <<>> THEN <<>> ELSE U2(Head(xs)) \o U2s(Tail(xs))

\* a class file of Java 11 with the constant pool TestPool (count 9) and one field
ClassFile(flags, this, super, ifaces) ==
    <<202, 254, 186, 190, 0, 0, 0, 55>> \o U2(9) \o TestPool \o U2(flags) \o U2(this)
    \o U2(super) \o U2(Len(ifaces)) \o U2s(ifaces) \o U2(1)

\* this_class and super_class indexes: 0, a UTF8 entry, the Class-refs, one
\* past the constant pool
ClassIndexes == {0, 1, 2, 4, 6, 8, 9}

\* interface tables
InterfaceTables == {<<>>, <<2>>, <<4, 2>>, <<0>>, <<7>>, <<8>>, <<9>>, <<2, 9>>}

ClassFiles ==
    {ClassFile(flags, this, super, ifaces) :
        flags \in {33, 1537}, this \in ClassIndexes, super \in ClassIndexes,
        ifaces \in InterfaceTables}

\* a class file cut off at any length
CutClassFiles ==
    {SubSeq(b, 1, n) : n \in 10..67, b \in {ClassFile(33, 2, 4, <<4, 2>>)}}

\* the process-wide tables at the time a class is parsed: java/lang/Object is
\* loaded, its name is interned, and the G functions of PrintStream are in
\* the native-method table
TablesAtParse ==
    /\ MethArea = [n \in {"java/lang/Object"} |-> [status |-> "Initialized"]]
    /\ StringPool = <<"java/lang/Object">>
    /\ MethodSignatures = Assign(<<>>, Load_Io_PrintStream)
    /\ MTable = loadlib(<<>>, Assign(<<>>, Load_Io_PrintStream)).tbl
    /\ thrown = NoException
    /\ gCall = NoCall
    /\ loader = NoLoads

InitParse ==
    /\ NotRunning
    /\ TablesAtParse
    /\ NoCli
    /\ rawBytes \in Buffers \cup ClassFiles \cup CutClassFiles
    /\ pClass = ZeroClass
    /\ parseErr = NilError
    /\ parseStage = "parseMagicNumber"
    /\ calls = <<>>
    /\ pos = 0

\* parse, were it to intern the class name once it has read it
Called_Interning(name, e, klass, next) ==
    /\ calls' = Append(calls, name)
    /\ parseErr' = e
    /\ pClass' = klass
    /\ parseStage' = IF e # NilError THEN "returned" ELSE next
    /\ StringPool' = IF klass.className = <<>> THEN StringPool
                     ELSE Append(StringPool, klass.className)
    /\ UNCHANGED <<rawBytes, interpVars, cliVars, MethArea, MTable,
                   MethodSignatures, thrown, gCall, loader>>

\* parse, were it to go on to the next function whatever the error
Called_GoesOn(name, e, klass, next) ==
    /\ calls' = Append(calls, name)
    /\ parseErr' = e
    /\ pClass' = klass
    /\ parseStage' = next
    /\ UNCHANGED <<rawBytes, interpVars, globalVars, cliVars>>

\* what parse does with the error of the function it has called: return it, or
\* go on to the next function
Called(name, e, klass, next) ==
    /\ calls' = Append(calls, name)
    /\ parseErr' = e
    /\ pClass' = klass
    /\ parseStage' = IF e # NilError THEN "returned" ELSE next
    /\ UNCHANGED <<rawBytes, interpVars, globalVars, cliVars>>

\* the same for the functions that take and return a position
CalledAt(name, r, next) ==
    /\ pos' = r.pos
    /\ Called(name, r.err, r.klass, next)

\* err := parseMagicNumber(rawBytes)
ParseMagicNumber ==
    /\ parseStage = "parseMagicNumber"
    /\ Called("parseMagicNumber", parseMagicNumber(rawBytes), pClass,
              "parseJavaVersionNumber")
    /\ UNCHANGED pos

\* err = parseJavaVersionNumber(rawBytes, &pClass)
ParseJavaVersionNumber ==
    /\ parseStage = "parseJavaVersionNumber"
    /\ \E r \in {parseJavaVersionNumber(rawBytes, pClass)} :
          Called("parseJavaVersionNumber", r.err, r.klass, "getConstantPoolCount")
    /\ UNCHANGED pos

\* err = getConstantPoolCount(rawBytes, &pClass)
GetConstantPoolCount ==
    /\ parseStage = "getConstantPoolCount"
    /\ \E r \in {getConstantPoolCount(rawBytes, pClass)} :
          Called("getConstantPoolCount", r.err, r.klass, "parseConstantPool")
    /\ UNCHANGED pos

\* pos, err := parseConstantPool(rawBytes, &pClass); parse also returns, with
\* a nil error, when pos is less than 10
ParseConstantPool ==
    /\ parseStage = "parseConstantPool"
    /\ \E r \in {parseConstantPool(rawBytes, pClass)} :
          CalledAt("parseConstantPool", r,
                   IF r.pos < 10 THEN "returned" ELSE "parseAccessFlags")

\* pos, err = parseAccessFlags(rawBytes, pos, &pClass)
ParseAccessFlags ==
    /\ parseStage = "parseAccessFlags"
    /\ \E r \in {parseAccessFlags(rawBytes, pos, pClass)} :
          CalledAt("parseAccessFlags", r, "parseClassName")

\* pos, err = parseClassName(rawBytes, pos, &pClass)
ParseClassName ==
    /\ parseStage = "parseClassName"
    /\ \E r \in {parseClassName(rawBytes, pos, pClass)} :
          CalledAt("parseClassName", r, "parseSuperClassName")

\* pos, err = parseSuperClassName(rawBytes, pos, &pClass)
ParseSuperClassName ==
    /\ parseStage = "parseSuperClassName"
    /\ \E r \in {parseSuperClassName(rawBytes, pos, pClass)} :
          CalledAt("parseSuperClassName", r, "parseInterfaceCount")

\* pos, err = parseInterfaceCount(rawBytes, pos, &pClass); parseInterfaces is
\* called only if pClass.interfaceCount > 0
ParseInterfaceCount ==
    /\ parseStage = "parseInterfaceCount"
    /\ \E r \in {parseInterfaceCount(rawBytes, pos, pClass)} :
          CalledAt("parseInterfaceCount", r,
                   IF r.klass.interfaceCount > 0 THEN "parseInterfaces"
                   ELSE "parseFieldCount")

\* pos, err = parseInterfaces(rawBytes, pos, &pClass)
ParseInterfaces ==
    /\ parseStage = "parseInterfaces"
    /\ \E r \in {parseInterfaces(rawBytes, pos, pClass)} :
          CalledAt("parseInterfaces", r, "parseFieldCount")

\* pos, err = parseFieldCount(rawBytes, pos, &pClass); return pClass, nil
ParseFieldCount ==
    /\ parseStage = "parseFieldCount"
    /\ \E r \in {parseFieldCount(rawBytes, pos, pClass)} :
          CalledAt("parseFieldCount", r, "returned")

NextParse ==
    \/ ParseMagicNumber
    \/ ParseJavaVersionNumber
    \/ GetConstantPoolCount
    \/ ParseConstantPool
    \/ ParseAccessFlags
    \/ ParseClassName
    \/ ParseSuperClassName
    \/ ParseInterfaceCount
    \/ ParseInterfaces
    \/ ParseFieldCount

SpecParse == InitParse /\ [][NextParse]_vars

\* ------------------------------------------------------------------------
\* C19: the magic number
\* ------------------------------------------------------------------------

\* the buffer starts with CA FE BA BE
StartsWithMagic == Len(rawBytes) >= 4 /\ SubSeq(rawBytes, 1, 4) = <<202, 254, 186, 190>>

\* C19: parse returns the ClassFormatError "invalid magic number" for every
\* buffer of fewer than 4 bytes or not starting with CA FE BA BE, having
\* called nothing but parseMagicNumber and set no field of the class; for
\* every buffer that starts with CA FE BA BE the magic check passes and parse
\* goes on to the version.
C19_MagicNumber ==
    calls # <<>>
    => IF StartsWithMagic
       THEN /\ calls[1] = "parseMagicNumber"
            /\ Len(calls) = 1 => /\ parseErr = NilError
                                 /\ parseStage = "parseJavaVersionNumber"
            /\ parseErr.msg # <<"invalid magic number">>
       ELSE /\ calls = <<"parseMagicNumber">>
            /\ parseStage = "returned"
            /\ parseErr = [type |-> "ClassFormatError", msg |-> <<"invalid magic number">>]
            /\ pClass = ZeroClass

\* C19 witness: a full header starting with CA FE BA BD has been rejected
C19_Witness ==
    /\ Len(rawBytes) >= 10
    /\ SubSeq(rawBytes, 1, 4) = <<202, 254, 186, 189>>
    /\ calls = <<"parseMagicNumber">>
    /\ parseStage = "returned"
    /\ parseErr.msg = <<"invalid magic number">>

\* ------------------------------------------------------------------------
\* C20: the constant-pool count
\* ------------------------------------------------------------------------

\* the count in bytes 8-9 of the buffer
CountRead == rawBytes[9] * 256 + rawBytes[10]

\* C20: getConstantPoolCount accepts every count of 2 or more, and then the
\* class's cpCount is the count in bytes 8-9; it returns a ClassFormatError
\* for the counts below 2 and for a buffer that ends before byte 9.
C20_CpCountAtLeast2 ==
    (Len(calls) >= 3 /\ calls[3] = "getConstantPoolCount")
    => IF Len(rawBytes) >= 10 /\ CountRead >= 2
       THEN /\ parseErr = NilError
            /\ pClass.cpCount = CountRead
       ELSE /\ parseErr.type = "ClassFormatError"
            /\ parseStage = "returned"

\* ------------------------------------------------------------------------
\* C21: the super_class index
\* ------------------------------------------------------------------------

\* parseSuperClassName is the function parse called last, and the buffer held
\* the two bytes of the index
SuperClassRead ==
    /\ Len(calls) = 7
    /\ calls[7] = "parseSuperClassName"
    /\ pos < Len(rawBytes)

\* the u16 that ends at pos
IndexRead == At(rawBytes, pos - 1) * 256 + At(rawBytes, pos)

\* C21: a super_class index of 0 is accepted for the class java/lang/Object,
\* which then has the empty superclass name, and is a ClassFormatError for
\* every other class, as are an index outside the constant pool, the index of
\* an entry that is no Class-ref, and an empty superclass name.
C21_SuperClassIndex ==
    SuperClassRead
    => IF IndexRead = 0 /\ pClass.className = JavaLangObject
       THEN parseErr = NilError /\ pClass.superClass = <<>>
       ELSE (\/ IndexRead = 0
             \/ IndexRead > 8
             \/ IndexRead \notin {2, 4, 6, 8}
             \/ IndexRead = 6 /\ pClass.className # JavaLangObject)
            => /\ parseErr.type = "ClassFormatError"
               /\ parseStage = "returned"
               /\ pClass.superClass = <<>>

\* ------------------------------------------------------------------------
\* C22: the class, superclass and interface indexes
\* ------------------------------------------------------------------------

\* the u16 at bytes i and i + 1 of the buffer
U16At(i) == At(rawBytes, i) * 256 + At(rawBytes, i + 1)

\* the indexes in the buffer: the constant pool of the class files ends at
\* byte 52, the access flags follow, then this_class, super_class, the
\* interface count and the interface indexes
ThisClassIndex == U16At(55)
SuperClassIndex == U16At(57)
InterfaceCountRead == U16At(59)
InterfaceIndex(i) == U16At(61 + 2 * i)

\* the indexes of the pool in [1, cp_count) that are Class-refs whose name index
\* is that of a UTF8 entry; and those that are 0, out of range, or of another type
GoodClassIndexes == {2, 4, 6}
BadClassIndexes == {0, 1, 3, 5, 7} \cup {i \in 0..65535 : i >= 9}

\* parse has returned, and a given function was the last it called
ReturnedAfter(name) == parseStage = "returned" /\ calls[Len(calls)] = name

\* C22: when parse succeeds, the this_class index, the super_class index and
\* every interface index are in [1, cp_count) and name a Class-ref whose name
\* is a UTF8 entry, and as many interfaces are recorded as the interface count
\* says; a this_class, super_class or interface index that is 0, out of range
\* or of another type makes parse return a ClassFormatError.
C22_ClassIndexes ==
    /\ (ReturnedAfter("parseFieldCount") /\ parseErr = NilError)
          => /\ ThisClassIndex \in GoodClassIndexes
             /\ SuperClassIndex \in GoodClassIndexes
             /\ \A i \in 0..(InterfaceCountRead - 1) : InterfaceIndex(i) \in GoodClassIndexes
             /\ pClass.interfaceCount = InterfaceCountRead
             /\ Len(pClass.interfaces) = InterfaceCountRead
    /\ (Len(calls) >= 6 /\ Len(rawBytes) >= 57 /\ ThisClassIndex \in BadClassIndexes)
          => /\ ReturnedAfter("parseClassName")
             /\ parseErr.type = "ClassFormatError"
    /\ (Len(calls) >= 7 /\ Len(rawBytes) >= 59 /\ SuperClassIndex \in BadClassIndexes)
          => /\ ReturnedAfter("parseSuperClassName")
             /\ parseErr.type = "ClassFormatError"
    /\ (/\ Len(calls) >= 9
        /\ calls[9] = "parseInterfaces"
        /\ \E i \in 0..(InterfaceCountRead - 1) :
              /\ Len(rawBytes) >= 63 + 2 * i
              /\ InterfaceIndex(i) \in BadClassIndexes
              /\ \A j \in 0..(i - 1) : InterfaceIndex(j) \in GoodClassIndexes)
          => /\ ReturnedAfter("parseInterfaces")
             /\ parseErr.type = "ClassFormatError"

\* C22 witness: a class with the interfaces 4 and 2 has parsed
C22_Witness ==
    /\ ReturnedAfter("parseFieldCount")
    /\ parseErr = NilError
    /\ InterfaceCountRead = 2
    /\ InterfaceIndex(0) = 4
    /\ InterfaceIndex(1) = 2
    /\ Len(pClass.interfaces) = 2

\* ------------------------------------------------------------------------
\* C23: parse and the process-wide state
\* ------------------------------------------------------------------------

\* the method area, the string pool and the native-method table
ProcessWide == <<MethArea, StringPool, MTable, MethodSignatures>>

\* parse is under way or has returned
Parsing == parseStage # "idle"

\* C23: parse has no effect on the process-wide state: no call parse makes
\* changes the method area, the string pool or the native-method table, and
\* nothing but the parsedClass and the error changes when it returns
C23_ParseLeavesGlobals ==
    [][Parsing =>
         /\ ProcessWide' = ProcessWide
         /\ rawBytes' = rawBytes
         /\ UNCHANGED <<interpVars, cliVars, thrown, gCall, loader>>]_vars

\* parse has returned a class with its name read, with the tables holding
\* a class, a string and native methods
C23_Witness ==
    /\ parseStage = "returned"
    /\ parseErr = NilError
    /\ pClass.className # <<>>
    /\ "java/lang/Object" \in DOMAIN MethArea
    /\ StringPool # <<>>
    /\ MTable # <<>>

\* ------------------------------------------------------------------------
\* Loading the G functions and invoking them
\* ------------------------------------------------------------------------

InitGfunction ==
    /\ NotRunning
    /\ NotParsing
    /\ NoGlobals
    /\ NoCli

\* MTableLoadGFunctions: the Load_ functions fill MethodSignatures, loadlib
\* copies it into the MTable. Traps.go defines Load_Traps twice; the build
\* has one of the two.
MTableLoadGFunctions ==
    /\ MTable = <<>>
    /\ \E traps \in {Load_Traps, Load_Traps_Later} :
       \E sigs \in {Assign(Assign(Assign(Assign(Assign(MethodSignatures,
                        Load_Io_FileWriter), Load_Io_PrintStream),
                        Load_Lang_Integer), Load_Lang_StackTraceELement),
                        traps)} :
       \E r \in {loadlib(MTable, sigs)} :
          /\ MethodSignatures' = sigs
          /\ MTable' = r.tbl
          /\ thrown' = r.thrown
    /\ UNCHANGED <<MethArea, StringPool, gCall, loader, interpVars,
                   parserVars, cliVars>>

\* the invocation of a native method: the entry is looked up by its key, and
\* the host function is given the receiver and the ParamSlots values below
\* it on the caller's operand stack
InvokeNative ==
    /\ \E key \in DOMAIN MTable :
          gCall' = [key |-> key,
                    args |-> SubSeq(CallerStack, 1,
                                    MTable[key].Meth.ParamSlots + 1),
                    ret |-> <<>>]
    /\ UNCHANGED <<MethArea, StringPool, MTable, MethodSignatures, thrown,
                   loader, interpVars, parserVars, cliVars>>

NextGfunction == MTableLoadGFunctions \/ InvokeNative

SpecGfunction == InitGfunction /\ [][NextGfunction]_vars

\* ------------------------------------------------------------------------
\* C24: the keys of the native-method table
\* ------------------------------------------------------------------------

\* the key has the form class.method(args)return: a '.', a '(' after it, a
\* ')' after that, and a return descriptor after the ')'
HasKeyForm(key) ==
    \E d, o, c \in DOMAIN key :
        /\ key[d] = "."
        /\ key[o] = "("
        /\ key[c] = ")"
        /\ d < o
        /\ o < c
        /\ c < Len(key)

\* the G functions have been loaded
Loaded == MTable # <<>>

\* C24: every key registered in the native-method table has the form
\* class.method(args)return and passes checkKey, so that loading the G
\* functions never throws the InternalException of loadlib
C24_KeysValid ==
    Loaded =>
        /\ \A key \in DOMAIN MTable : HasKeyForm(key) /\ checkKey(key)
        /\ thrown = NoException

\* ------------------------------------------------------------------------
\* C25: ParamSlots
\* ------------------------------------------------------------------------

\* the parts of the key that are parameter descriptors
ParamsOf(key) ==
    {i \in DOMAIN key :
        /\ \E o \in 1..(i - 1) : key[o] = "("
        /\ \E c \in (i + 1)..Len(key) : key[c] = ")"
        /\ key[i] \notin {".", "(", ")"}}

\* the operand-stack slots of the parameters: two for a long or a double,
\* one for any other
DescriptorSlots(key) ==
    Cardinality(ParamsOf(key))
        + Cardinality({i \in ParamsOf(key) : key[i] \in {"J", "D"}})

\* C25: the ParamSlots of every registered native method is the number of
\* operand-stack slots of the parameters in its key, and the method is
\* invoked with that many values and one more
C25_ParamSlots ==
    /\ \A key \in DOMAIN MTable :
          MTable[key].Meth.ParamSlots = DescriptorSlots(key)
    /\ gCall # NoCall => Len(gCall.args) = DescriptorSlots(gCall.key) + 1

\* ------------------------------------------------------------------------
\* The command line: getEnvArgs, handleUserMessages, HandleCli
\* ------------------------------------------------------------------------

\* Strings are sequences of characters. The strings the code names:
Space == <<" ">>
DashH == <<"-", "h">>
DashHelp == <<"-", "h", "e", "l", "p">>
DashQuestion == <<"-", "?">>
DashDashHelp == <<"-", "-", "h", "e", "l", "p">>
DashShowversion == <<"-", "s", "h", "o", "w", "v", "e", "r", "s", "i", "o", "n">>
DashDashShowVersion == <<"-", "-", "s", "h", "o", "w", "-", "v", "e", "r", "s", "i", "o", "n">>
DashVersion == <<"-", "v", "e", "r", "s", "i", "o", "n">>
DashDashVersion == <<"-", "-", "v", "e", "r", "s", "i", "o", "n">>
DashClient == <<"-", "c", "l", "i", "e", "n", "t">>
DashVerbose == <<"-", "v", "e", "r", "b", "o", "s", "e">>
DotClass == <<".", "c", "l", "a", "s", "s">>

\* strings.HasSuffix
HasSuffix(s, suffix) ==
    /\ Len(suffix) <= Len(s)
    /\ SubSeq(s, Len(s) - Len(suffix) + 1, Len(s)) = suffix

\* strings.Contains
Contains(s, substr) ==
    \E i \in 1..(Len(s) - Len(substr) + 1) :
        SubSeq(s, i, i + Len(substr) - 1) = substr

\* strings.Index of a character, counting from 1; 0 when s has none (-1 in Go)
Index(s, c) ==
    IF \E i \in DOMAIN s : s[i] = c
    THEN CHOOSE i \in DOMAIN s : s[i] = c /\ \A j \in 1..(i - 1) : s[j] # c
    ELSE 0

\* strings.TrimSpace
TrimSpace(s) ==
    IF \A i \in DOMAIN s : s[i] = " "
    THEN <<>>
    ELSE SubSeq(s,
           CHOOSE a \in DOMAIN s :
               s[a] # " " /\ \A j \in 1..(a - 1) : s[j] = " ",
           CHOOSE b \in DOMAIN s :
               s[b] # " " /\ \A j \in (b + 1)..Len(s) : s[j] = " ")

\* where the words of s start, and where the word that starts at i ends
WordStarts(s) == {i \in DOMAIN s : s[i] # " " /\ (i = 1 \/ s[i - 1] = " ")}

WordEnd(s, i) ==
    CHOOSE e \in i..Len(s) :
        /\ \A j \in i..e : s[j] # " "
        /\ (e = Len(s) \/ s[e + 1] = " ")

\* strings.Fields: the words of s, in order
Fields(s) ==
    [k \in 1..Cardinality(WordStarts(s)) |->
        Only({SubSeq(s, i, WordEnd(s, i)) :
                i \in {x \in WordStarts(s) :
                         Cardinality({y \in WordStarts(s) : y <= x}) = k}})]

\* one round of the loop of getEnvArgs: a string that is found is copied,
\* and a trailing space added
AddEnv(envArgs, envString) ==
    IF Len(envString) > 0
    THEN IF ~ HasSuffix(envArgs \o envString, Space)
         THEN envArgs \o envString \o Space
         ELSE envArgs \o envString
    ELSE envArgs

\* getEnvArgs, were it to inspect the three variables in the reverse order
getEnvArgs_Reversed(e) ==
    TrimSpace(AddEnv(AddEnv(AddEnv(<<>>, e[javaEnvKeys[3]]),
                            e[javaEnvKeys[2]]), e[javaEnvKeys[1]]))

\* getEnvArgs: the values of JAVA_TOOL_OPTIONS, _JAVA_OPTIONS and
\* JDK_JAVA_OPTIONS, in this order
getEnvArgs(e) ==
    TrimSpace(AddEnv(AddEnv(AddEnv(<<>>, e[javaEnvKeys[1]]),
                            e[javaEnvKeys[2]]), e[javaEnvKeys[3]]))

\* a line printed: what it is, and what it is about
Line(text, about) == [text |-> text, about |-> about]

\* showUsage
Usage == Line("usage", <<>>)

\* handleUserMessages: whether processing ends, and the stream the usage
\* was shown on
handleUserMessages(allArgs) ==
    IF \/ Contains(allArgs, DashH)
       \/ Contains(allArgs, DashHelp)
       \/ Contains(allArgs, DashQuestion)
    THEN [exitProcessing |-> TRUE, usageTo |-> "stderr"]
    ELSE IF Contains(allArgs, DashDashHelp)
         THEN [exitProcessing |-> TRUE, usageTo |-> "stdout"]
         ELSE [exitProcessing |-> FALSE, usageTo |-> ""]

\* getOptionRootAndArgs: the option and its embedded argument value, which
\* comes after a ':' or an '='
getOptionRootAndArgs(option) ==
    IF Len(option) = 0
    THEN [option |-> <<>>, arg |-> <<>>, err |-> "empty option error"]
    ELSE Only({
          IF argMarker = 0
          THEN [option |-> option, arg |-> <<>>, err |-> ""]
          ELSE [option |-> SubSeq(option, 1, argMarker - 1),
                arg |-> SubSeq(option, argMarker + 1, Len(option)),
                err |-> ""] :
             argMarker \in {IF Index(option, ":") # 0
                            THEN Index(option, ":")
                            ELSE Index(option, "=")}})

\* showCopyright: shown unless one of the version options is on the
\* command line
showCopyright(commandLine) ==
    IF /\ ~ Contains(commandLine, DashShowversion)
       /\ ~ Contains(commandLine, DashDashShowVersion)
       /\ ~ Contains(commandLine, DashVersion)
       /\ ~ Contains(commandLine, DashDashVersion)
    THEN <<Line("copyright", <<>>)>>
    ELSE <<>>

\* the options table: -client, -verbose and -version
Options == {DashClient, DashVerbose, DashVersion}

\* opt.action(i, arg): the action is recorded; -version shows the version
\* on the error stream and asks for the exit
OptAction(st, i, option, arg) ==
    [st EXCEPT
       !.Global.actions = Append(@, [option |-> option, arg |-> arg, i |-> i]),
       !.Global.ExitNow = @ \/ option = DashVersion,
       !.stderr = IF option = DashVersion
                  THEN Append(@, Line("version", <<>>))
                  ELSE @]

\* the body of the loop of HandleCli for an arg that is not the starting
\* class: the action of a recognized option, a message for another, and a
\* line for an argument value
OptionStep(st, i, a, r) ==
    Only({[st1 EXCEPT
             !.stdout = IF Len(r.arg) > 0
                        THEN Append(@, Line("has argument value",
                                            <<r.option, r.arg>>))
                        ELSE @] :
            st1 \in {IF r.option \in Options
                     THEN OptAction(st, i - 1, r.option, r.arg)
                     ELSE [st EXCEPT !.stderr =
                             Append(@, Line("not a recognized option",
                                            <<a>>))]}})

\* the loop of HandleCli from the arg at i on; st is the Global structure
\* and the two streams
RECURSIVE ArgLoop(_, _, _)
ArgLoop(args, i, st) ==
    IF i > Len(args)
    THEN st
    ELSE Only({
          IF r.err # ""
          THEN ArgLoop(args, i + 1, st)
          ELSE IF HasSuffix(r.option, DotClass)
               THEN [st EXCEPT
                       !.Global.startingClass = r.option,
                       !.Global.appArgs = @ \o SubSeq(args, i + 1, Len(args))]
               ELSE Only({ArgLoop(args, i + 1, st1) :
                            st1 \in {OptionStep(st, i, args[i], r)}}) :
             r \in {getOptionRootAndArgs(args[i])}})

\* cliArgs += v + " " for every v
RECURSIVE JoinArgs(_, _)
JoinArgs(cliArgs, vs) ==
    IF vs = <<>>
    THEN cliArgs
    ELSE JoinArgs(cliArgs \o Head(vs) \o Space, Tail(vs))

\* HandleCli after handleUserMessages has found nothing to show: the args
\* are pulled out, the copyright is shown, the loop is run and the starting
\* class is looked for
HandleCliArgs(args, st) ==
    Only({[Global |-> st2.Global,
           stdout |-> IF st2.Global.startingClass = <<>>
                      THEN Append(st2.stdout, Usage)
                      ELSE st2.stdout,
           stderr |-> st2.stderr,
           err |-> IF st2.Global.startingClass = <<>>
                   THEN "no executable specified"
                   ELSE ""] :
            st2 \in {ArgLoop(args, 1,
                       [st EXCEPT
                          !.Global.args = args,
                          !.stdout = @ \o showCopyright(st.Global.commandLine)])}})

\* HandleCli: the Global structure and the two streams it leaves, and the
\* error it returns
HandleCli(oArgs, e, st) ==
    Only({
      Only({
        Only({
          IF discontinue.exitProcessing
          THEN [Global |-> st1.Global,
                stdout |-> IF discontinue.usageTo = "stdout"
                           THEN Append(st1.stdout, Usage) ELSE st1.stdout,
                stderr |-> IF discontinue.usageTo = "stderr"
                           THEN Append(st1.stderr, Usage) ELSE st1.stderr,
                err |-> "end of processing"]
          ELSE HandleCliArgs(Fields(javaEnvOptions) \o Tail(oArgs), st1) :
             discontinue \in {handleUserMessages(cliArgs)},
             st1 \in {[st EXCEPT !.Global.commandLine = TrimSpace(cliArgs)]}}) :
          cliArgs \in {JoinArgs(javaEnvOptions \o Space, Tail(oArgs))}}) :
        javaEnvOptions \in {getEnvArgs(e)}})

\* ------------------------------------------------------------------------
\* JVMrun on command lines and environments
\* ------------------------------------------------------------------------

\* the exit codes of the shutdown package
OK == 0
JVM_EXCEPTION == 1
APP_EXCEPTION == 2

\* the most arguments on a command line
MaxArgs == 2

\* the strings of the command lines and environments
VerboseFine == <<"-", "v", "e", "r", "b", "o", "s", "e", ":", "f", "i", "n", "e">>
DashX == <<"-", "x">>
AClass == <<"A", ".", "c", "l", "a", "s", "s">>
AppArg == <<"a">>
EnvA == <<"-", "a">>
EnvBC == <<"-", "b", " ", " ", "-", "c", " ">>
EnvD == <<"-", "d">>
Jacobin == <<"j", "a", "c", "o", "b", "i", "n">>

\* what a command line is made of: the help options, a recognized option,
\* the option that asks for the exit, an option with an argument value, an
\* unrecognized option, a class, a plain word and the empty string
ArgTokens ==
    {DashH, DashHelp, DashQuestion, DashDashHelp, DashClient, DashVersion,
     VerboseFine, DashX, AClass, AppArg, <<>>}

CommandLines == UNION {[1..n -> ArgTokens] : n \in 0..MaxArgs}

\* the three variables unset, set to one option, to blanks, to two options
\* with blanks between and after them
Environments ==
    {[k \in {javaEnvKeys[i] : i \in 1..3} |->
        IF k = javaEnvKeys[1] THEN a ELSE IF k = javaEnvKeys[2] THEN b ELSE c] :
       a \in {<<>>, EnvA}, b \in {<<>>, Space, EnvBC}, c \in {<<>>, EnvD}}

\* ------------------------------------------------------------------------
\* The class loader: load(name) over classes that refer to each other
\* ------------------------------------------------------------------------

\* the most classes parsed in one behaviour
MaxParsed == 7

\* the classes loaded at startup
BaseClasses == <<"java/lang/Object", "java/lang/String", "java/lang/Throwable">>

\* the classes on the search path with the classes their constant pools
\* refer to: A and B refer to each other, C to itself and to a class whose
\* bytes are nowhere to be found
ClassRefs ==
    [n \in {"A", "B", "C", "java/lang/Object", "java/lang/String",
            "java/lang/Throwable"} |->
        CASE n = "A" -> <<"B", "java/lang/Object">>
          [] n = "B" -> <<"A">>
          [] n = "C" -> <<"C", "Missing">>
          [] n = "java/lang/String" -> <<"java/lang/Object">>
          [] n = "java/lang/Throwable" -> <<"java/lang/Object", "java/lang/String">>
          [] OTHER -> <<>>]

\* the names asked for
LoadNames == {"A", "B", "C", "java/lang/Object", "Missing"}

\* the method area with klass under name
WithKlass(area, name, klass) ==
    [n \in DOMAIN area \cup {name} |-> IF n = name THEN klass ELSE area[n]]

\* method_area.fetch, were it to find nothing
MethAreaFetch_Nil(area, name) == <<>>

\* method_area.fetch(name): the class under the name, nil (<<>>) if none
MethAreaFetch(area, name) ==
    IF name \in DOMAIN area THEN <<area[name]>> ELSE <<>>

\* the loads of the classes a class refers to, in the order of the constant
\* pool, followed by the linking of the class
LoadsOf(name) ==
    [i \in 1..Len(ClassRefs[name]) |-> <<"load", ClassRefs[name][i]>>]
        \o << <<"link", name>> >>

\* one step of load(name), innermost load first: a class in the method area
\* is satisfied; a class without bytes ends the load with an error; any other
\* class is parsed, registered as Parsed and its references are loaded
\* before it is linked
LoadOne(area, ld) ==
    LET todo == ld.pending[1]
        rest == Tail(ld.pending)
    IN CASE todo[1] = "link" ->
               [area |-> [area EXCEPT ![todo[2]].status = "Linked"],
                loader |-> [ld EXCEPT !.pending = rest]]
         [] todo[1] = "load" /\ MethAreaFetch(area, todo[2]) # <<>> ->
               [area |-> area, loader |-> [ld EXCEPT !.pending = rest]]
         [] todo[1] = "load" /\ MethAreaFetch(area, todo[2]) = <<>>
               /\ todo[2] \notin DOMAIN ClassRefs ->
               [area |-> area,
                loader |-> [ld EXCEPT !.pending = <<>>,
                                      !.err = "ClassNotFoundException"]]
         [] OTHER ->
               [area |-> WithKlass(area, todo[2], [status |-> "Parsed"]),
                loader |-> [ld EXCEPT !.pending = LoadsOf(todo[2]) \o rest,
                                      !.parsed = Append(@, todo[2])]]

\* a call of load runs to its end
RECURSIVE LoadAll(_, _)
LoadAll(area, ld) ==
    IF ld.pending = <<>> THEN [area |-> area, loader |-> ld]
    ELSE \* the next step is taken on what the step before left
         LoadAll(LoadOne(area, ld).area, LoadOne(area, ld).loader)

\* the names of the classes the file of the starting class may hold
StartingClasses == {"A", "C"}

InitJVMrun ==
    /\ NotRunning
    /\ NotParsing
    /\ NoGlobals
    /\ env \in Environments
    /\ osArgs \in {<<Jacobin>> \o a : a \in CommandLines}
    /\ Global = InitGlobals
    /\ stdout = <<>>
    /\ stderr = <<>>
    /\ exitCode = NotExited
    /\ jvmStage = "HandleCli"
    /\ jvmErrs = NoErrors

\* shutdown.Exit
Exit(code) ==
    /\ exitCode' = code
    /\ jvmStage' = "exited"

\* JVMrun up to the loading of the starting class: HandleCli, the exit on
\* its error, the exit an option asked for, the exit for want of a starting
\* class
JVMrunHandleCli ==
    /\ jvmStage = "HandleCli"
    /\ \E r \in {HandleCli(osArgs, env, [Global |-> Global,
                                        stdout |-> stdout,
                                        stderr |-> stderr])} :
          /\ Global' = r.Global
          /\ stderr' = r.stderr
          /\ jvmErrs' = [jvmErrs EXCEPT !.cli = r.err]
          /\ IF r.err # ""
             THEN stdout' = r.stdout /\ Exit(APP_EXCEPTION)
             ELSE IF r.Global.ExitNow = TRUE
                  THEN stdout' = r.stdout /\ Exit(OK)
                  ELSE IF r.Global.startingClass = <<>>
                       THEN /\ stdout' = Append(r.stdout, Usage)
                            /\ Exit(APP_EXCEPTION)
                       ELSE /\ stdout' = r.stdout
                            /\ jvmStage' = "LoadBaseClasses"
                            /\ UNCHANGED exitCode
    /\ UNCHANGED <<env, osArgs, interpVars, parserVars, globalVars>>

\* the loads of the base classes, in their order
BaseLoads == [i \in 1..Len(BaseClasses) |-> <<"load", BaseClasses[i]>>]

\* JVMrun, were it to initialise the class loader and load no base class
JVMrunLoadBaseClasses_None ==
    /\ jvmStage = "LoadBaseClasses"
    /\ MethArea' = <<>>
    /\ loader' = NoLoads
    /\ jvmStage' = "LoadClassFromFile"
    /\ UNCHANGED <<env, osArgs, Global, stdout, stderr, exitCode, jvmErrs,
                   interpVars, parserVars, StringPool, MTable,
                   MethodSignatures, thrown, gCall>>

\* JVMrun: classloader.Init() leaves an empty method area, LoadBaseClasses
\* loads the base classes into it
JVMrunLoadBaseClasses ==
    /\ jvmStage = "LoadBaseClasses"
    /\ \E r \in {LoadAll(<<>>, [NoLoads EXCEPT !.pending = BaseLoads])} :
          /\ MethArea' = r.area
          /\ loader' = r.loader
    /\ jvmStage' = "LoadClassFromFile"
    /\ UNCHANGED <<env, osArgs, Global, stdout, stderr, exitCode, jvmErrs,
                   interpVars, parserVars, StringPool, MTable,
                   MethodSignatures, thrown, gCall>>

\* JVMrun, were it to exit with APP_EXCEPTION when the class cannot be loaded
JVMrunLoadClass_AppException ==
    /\ jvmStage = "LoadClassFromFile"
    /\ \E e \in {"", "class not loaded"}, mainClass \in StartingClasses :
          /\ jvmErrs' = [jvmErrs EXCEPT !.load = e]
          /\ IF e # ""
             THEN Exit(APP_EXCEPTION) /\ UNCHANGED <<MethArea, loader>>
             ELSE /\ jvmStage' = "LoadReferencedClasses"
                  /\ MethArea' = WithKlass(MethArea, mainClass, [status |-> "Parsed"])
                  /\ loader' = [loader EXCEPT !.parsed = Append(@, mainClass),
                                              !.main = mainClass]
                  /\ UNCHANGED exitCode
    /\ UNCHANGED <<env, osArgs, Global, stdout, stderr, interpVars,
                   parserVars, StringPool, MTable, MethodSignatures, thrown,
                   gCall>>

\* JVMrun: the starting class is loaded from its file and registered, or
\* cannot be loaded
JVMrunLoadClass ==
    /\ jvmStage = "LoadClassFromFile"
    /\ \E e \in {"", "class not loaded"}, mainClass \in StartingClasses :
          /\ jvmErrs' = [jvmErrs EXCEPT !.load = e]
          /\ IF e # ""
             THEN Exit(JVM_EXCEPTION) /\ UNCHANGED <<MethArea, loader>>
             ELSE /\ jvmStage' = "LoadReferencedClasses"
                  /\ MethArea' = WithKlass(MethArea, mainClass, [status |-> "Parsed"])
                  /\ loader' = [loader EXCEPT !.parsed = Append(@, mainClass),
                                              !.main = mainClass]
                  /\ UNCHANGED exitCode
    /\ UNCHANGED <<env, osArgs, Global, stdout, stderr, interpVars,
                   parserVars, StringPool, MTable, MethodSignatures, thrown,
                   gCall>>

\* JVMrun: the classes the starting class refers to are loaded, then the
\* starting class is linked; a class that is not found ends the loading
JVMrunLoadReferencedClasses ==
    /\ jvmStage = "LoadReferencedClasses"
    /\ \E r \in {LoadAll(MethArea,
                         [loader EXCEPT !.pending = LoadsOf(loader.main)])} :
          /\ MethArea' = r.area
          /\ loader' = r.loader
    /\ jvmStage' = "StartExec"
    /\ UNCHANGED <<env, osArgs, Global, stdout, stderr, exitCode, jvmErrs,
                   interpVars, parserVars, StringPool, MTable,
                   MethodSignatures, thrown, gCall>>

\* JVMrun: StartExec runs the starting class and returns an error, or none
JVMrunStartExec ==
    /\ jvmStage = "StartExec"
    /\ \E e \in {"", "execution failed"} :
          /\ jvmErrs' = [jvmErrs EXCEPT !.exec = e]
          /\ gCall' = [key |-> <<"StartExec">>, args |-> <<loader.main>>,
                       ret |-> <<e>>]
          /\ IF e # ""
             THEN Exit(APP_EXCEPTION)
             ELSE Exit(OK)
    /\ UNCHANGED <<env, osArgs, Global, stdout, stderr, interpVars,
                   parserVars, MethArea, StringPool, MTable,
                   MethodSignatures, thrown, loader>>

NextJVMrun ==
    \/ JVMrunHandleCli
    \/ JVMrunLoadBaseClasses
    \/ JVMrunLoadClass
    \/ JVMrunLoadReferencedClasses
    \/ JVMrunStartExec

SpecJVMrun == InitJVMrun /\ [][NextJVMrun]_vars

\* ------------------------------------------------------------------------
\* C26: the order of the arguments
\* ------------------------------------------------------------------------

\* HandleCli has gone through the arguments
ArgsProcessed ==
    /\ jvmStage # "HandleCli"
    /\ jvmErrs.cli # "end of processing"

\* C26: the arguments HandleCli goes through are the options of
\* JAVA_TOOL_OPTIONS, then those of _JAVA_OPTIONS, then those of
\* JDK_JAVA_OPTIONS, then the arguments of the command line, each in its
\* order; a variable that is unset or empty contributes nothing
C26_ArgumentOrder ==
    ArgsProcessed =>
        Global.args = Fields(env[javaEnvKeys[1]]) \o Fields(env[javaEnvKeys[2]])
                        \o Fields(env[javaEnvKeys[3]]) \o Tail(osArgs)

\* the three variables are set and there are arguments on the command line
C26_Witness ==
    /\ ArgsProcessed
    /\ env[javaEnvKeys[1]] = EnvA
    /\ env[javaEnvKeys[2]] = EnvBC
    /\ env[javaEnvKeys[3]] = EnvD
    /\ Tail(osArgs) = <<DashX, AClass>>
    /\ Len(Global.args) = 6

\* ------------------------------------------------------------------------
\* C27: the help options
\* ------------------------------------------------------------------------

\* the arguments in the order of C26
AllArgs ==
    Fields(env[javaEnvKeys[1]]) \o Fields(env[javaEnvKeys[2]])
        \o Fields(env[javaEnvKeys[3]]) \o Tail(osArgs)

\* the index of the starting class among the arguments: the first that ends
\* with .class; one past the last argument when there is none
ClassAt ==
    IF \E i \in DOMAIN AllArgs : HasSuffix(AllArgs[i], DotClass)
    THEN CHOOSE i \in DOMAIN AllArgs :
            /\ HasSuffix(AllArgs[i], DotClass)
            /\ \A j \in 1..(i - 1) : ~ HasSuffix(AllArgs[j], DotClass)
    ELSE Len(AllArgs) + 1

\* the options: the arguments before the starting class
OptionsGiven == {AllArgs[i] : i \in 1..(ClassAt - 1)}

\* the lines printed on a stream
Printed(stream) == {stream[i] : i \in DOMAIN stream}

\* C27: when the options contain -help, -? or -h, the usage is printed and
\* the run ends with the exit code 0, no class having been loaded or executed
C27_HelpExitsOK ==
    OptionsGiven \cap {DashHelp, DashQuestion, DashH} # {} =>
        /\ jvmStage \in {"HandleCli", "exited"}
        /\ jvmStage = "exited" =>
              /\ Usage \in Printed(stdout) \cup Printed(stderr)
              /\ exitCode = OK

\* ------------------------------------------------------------------------
\* C28: the stream of the usage
\* ------------------------------------------------------------------------

\* C28: --help prints the usage on the standard output, -?, -h and -help
\* print it on the standard error
C28_UsageStream ==
    jvmStage = "exited" =>
        /\ (/\ DashDashHelp \in OptionsGiven
            /\ OptionsGiven \cap {DashHelp, DashQuestion, DashH} = {})
           => Usage \in Printed(stdout) /\ Usage \notin Printed(stderr)
        /\ (/\ OptionsGiven \cap {DashHelp, DashQuestion, DashH} # {}
            /\ DashDashHelp \notin OptionsGiven)
           => Usage \in Printed(stderr) /\ Usage \notin Printed(stdout)

\* ------------------------------------------------------------------------
\* C29: the arguments of the application
\* ------------------------------------------------------------------------

HelpOptions == {DashHelp, DashQuestion, DashH, DashDashHelp}

\* C29: with a starting class and no help option before it, every argument
\* after the starting class is passed to the application, in order, and is
\* not taken as an option of the JVM: the class is the starting class, the
\* run goes on to load it, and no usage is shown
C29_AppArgs ==
    (/\ jvmStage # "HandleCli"
     /\ ClassAt <= Len(AllArgs)
     /\ OptionsGiven \cap (HelpOptions \cup {DashVersion}) = {})
    => /\ Global.startingClass = AllArgs[ClassAt]
       /\ Global.appArgs = SubSeq(AllArgs, ClassAt + 1, Len(AllArgs))
       /\ jvmErrs.cli = ""
       /\ Usage \notin Printed(stdout) \cup Printed(stderr)

\* ------------------------------------------------------------------------
\* C30: the exit code of JVMrun
\* ------------------------------------------------------------------------

\* C30: JVMrun ends a run with one exit code: OK only when an option asked
\* for the exit or the execution returned no error, APP_EXCEPTION when
\* HandleCli fails, when no starting class is given or when the execution
\* returns an error, JVM_EXCEPTION when the starting class cannot be loaded
C30_ExitCode ==
    /\ (jvmStage = "exited") <=> (exitCode # NotExited)
    /\ jvmStage = "exited" =>
          /\ exitCode \in {OK, APP_EXCEPTION, JVM_EXCEPTION}
          /\ exitCode = OK =>
                /\ jvmErrs.cli = ""
                /\ \/ Global.ExitNow
                   \/ /\ Global.startingClass # <<>>
                      /\ jvmErrs.load = ""
                      /\ jvmErrs.exec = ""
          /\ jvmErrs.cli # "" => exitCode = APP_EXCEPTION
          /\ (ClassAt > Len(AllArgs) /\ ~ Global.ExitNow)
                => exitCode = APP_EXCEPTION
          /\ jvmErrs.exec # "" => exitCode = APP_EXCEPTION
          /\ jvmErrs.load # "" <=> exitCode = JVM_EXCEPTION

\* a run that ended because the starting class could not be loaded
C30_Witness ==
    /\ jvmStage = "exited"
    /\ Global.startingClass = AClass
    /\ jvmErrs.load # ""
    /\ exitCode = JVM_EXCEPTION

\* ------------------------------------------------------------------------
\* Failure diagnostics and stack traces: showFrameStack, showPanicCause,
\* showGoStackTrace, getStackTraces, StackTraceElement.of
\* ------------------------------------------------------------------------

\* the most frames on the thread's frame stack
MaxFrames == 2

\* the greatest depth StackTraceElement.of is called with
MaxDepth == 2

\* the most calls of showFrameStack that find no frame
MaxLog == 2

\* a frame of the method cl.meth, stopped at pc
FrameAt(cl, meth, pc) ==
    [CreateFrame(<<opcodes.NOP>>, 0) EXCEPT !.PC = pc]
        @@ [ClName |-> cl, MethName |-> meth]

\* the frames the stack is built from
ErrorFrames ==
    {FrameAt("Main", "main", 3), FrameAt("java/lang/String", "length", 12),
     FrameAt("Main", "run", 1234)}

\* the decimal digits of n >= 0
RECURSIVE Decimal(_)
Decimal(n) == IF n < 10 THEN <<n>> ELSE Append(Decimal(n \div 10), n % 10)

\* fmt.Sprintf("%03d", n): the digits, with zeroes in front up to three
Sprintf03d(n) ==
    Only({CASE Len(d) = 1 -> <<0, 0>> \o d
            [] Len(d) = 2 -> <<0>> \o d
            [] OTHER -> d : d \in {Decimal(n)}})

\* the entry of one frame: "Method: %-40s PC: %03d" of class.method and PC;
\* the name is followed by spaces up to the width of 40
FrameEntry(val) ==
    <<"Method: ", [s |-> <<val.ClName, ".", val.MethName>>, width |-> 40],
      " PC: ", Sprintf03d(val.PC)>>

\* grabFrameStack: one entry per frame, the top frame first
grabFrameStack(frames) == [i \in 1..Len(frames) |-> FrameEntry(frames[i])]

\* log.Log(msg, log.SEVERE): the message goes to stderr; about is what the
\* line belongs to
Log(out, msg, about) == Append(out, Line(msg, <<about>>))

RECURSIVE LogAll(_, _, _)
LogAll(out, msgs, about) ==
    IF msgs = <<>> THEN out
    ELSE LogAll(Log(out, msgs[1], about), Tail(msgs), about)

\* the lines of a log that belong to about
LinesOf(out, about) == SelectSeq(out, LAMBDA l : l.about = <<about>>)

\* a call of a function from outside the interpreter loop
CallOf(name, args, ret) == [key |-> <<name>>, args |-> args, ret |-> ret]

\* showFrameStack, were it not to note that the stack has been shown
showFrameStack_NotNoted ==
    /\ exitCode = NotExited
    /\ fs # <<>> \/ Len(LinesOf(stderr, "noFrames")) < MaxLog
    /\ gCall' = CallOf("showFrameStack", <<>>, <<>>)
    /\ IF Global.JvmFrameStackShown = FALSE
       THEN \E entries \in {grabFrameStack(fs)} :
               IF Len(entries) = 0
               THEN stderr' = Log(stderr, "no further data available",
                                  "noFrames")
               ELSE stderr' = LogAll(stderr, entries, "showFrameStack")
       ELSE UNCHANGED stderr
    /\ UNCHANGED <<Global, env, osArgs, stdout, exitCode, jvmStage, jvmErrs,
                   interpVars, parserVars, MethArea, StringPool, MTable,
                   MethodSignatures, thrown, loader>>

\* showFrameStack(t), t the thread whose Stack is fs
showFrameStack ==
    /\ exitCode = NotExited
    /\ fs # <<>> \/ Len(LinesOf(stderr, "noFrames")) < MaxLog
    /\ gCall' = CallOf("showFrameStack", <<>>, <<>>)
    /\ IF Global.JvmFrameStackShown = FALSE
       THEN \E entries \in {grabFrameStack(fs)} :
               IF Len(entries) = 0
               THEN /\ stderr' = Log(stderr, "no further data available",
                                     "noFrames")
                    /\ UNCHANGED Global
               ELSE /\ stderr' = LogAll(stderr, entries, "showFrameStack")
                    /\ Global' = [Global EXCEPT !.JvmFrameStackShown = TRUE]
       ELSE UNCHANGED <<stderr, Global>>
    /\ UNCHANGED <<env, osArgs, stdout, exitCode, jvmStage, jvmErrs,
                   interpVars, parserVars, MethArea, StringPool, MTable,
                   MethodSignatures, thrown, loader>>

\* showPanicCause(reason) on the globals and the log st; reason <<>> is nil
showPanicCause(reason, st) ==
    IF st.Global.PanicCauseShown THEN st
    ELSE [Global |-> [st.Global EXCEPT !.PanicCauseShown = TRUE],
          stderr |->
              Log(st.stderr,
                  IF reason # <<>>
                  THEN <<"\nerror: go panic because of ", reason, "\n">>
                  ELSE <<"\nerror: go panic -- cause unknown\n">>,
                  "showPanicCause")]

\* the loop of showGoStackTrace over the entries from entry i on: an entry
\* that starts with "runtime" is skipped together with the one after it
RECURSIVE LogGoStack(_, _, _)
LogGoStack(entries, i, out) ==
    IF i >= Len(entries) THEN [stderr |-> out, panic |-> FALSE]
    ELSE \* i < len(entries)
         Only({IF j >= Len(entries)
               THEN [stderr |-> out, panic |-> TRUE]
               ELSE LogGoStack(entries, j + 1,
                               Log(out, At(entries, j), "showGoStackTrace")) :
                  j \in {IF HasPrefix(At(entries, i), <<"runtime">>)
                         THEN i + 2 ELSE i}})

\* showGoStackTrace(stackInfo) on the globals and the log st; current is what
\* debug.Stack() returns
showGoStackTrace(stackInfo, current, st) ==
    IF st.Global.GoStackShown THEN st @@ [panic |-> FALSE]
    ELSE Only({Only({IF r.panic THEN [Global |-> s1.Global] @@ r
                     ELSE [Global |-> [s1.Global EXCEPT !.GoStackShown = TRUE]]
                              @@ r :
                        r \in {LogGoStack(IF s1.Global.ErrorGoStack # <<>>
                                          THEN s1.Global.ErrorGoStack
                                          ELSE current, 0,
                                          Log(s1.stderr, " ",
                                              "showGoStackTrace"))}}) :
                 s1 \in {IF stackInfo # <<>> /\ st.Global.PanicCauseShown = FALSE
                         THEN showPanicCause(stackInfo, st) ELSE st}})

\* what the Go runtime hands to recover(): nothing, or the cause of the panic
Reasons == {<<>>, <<"runtime error: index out of range [1] with length 1">>}

\* the host stack as debug.Stack() gives it, split at the newlines: the
\* goroutine, then for each host frame its function and its file, then the
\* empty entry after the last newline
GoStack(hostFrames) ==
    <<<<"goroutine 1 [running]:">>>> \o hostFrames \o <<<<>>>>

HostFrame(pkg, func) == <<<<pkg, func>>, <<"\t", pkg, ".go">>>>

HostStacks ==
    {GoStack(HostFrame("runtime", "/debug.Stack()")
              \o HostFrame("jacobin/jvm", ".showGoStackTrace(...)")
              \o HostFrame("main", ".main()")),
     GoStack(HostFrame("jacobin/jvm", ".runFrame(...)")
              \o HostFrame("runtime", ".gopanic(...)"))}

\* frames.PushFrame: a frame is pushed on the thread's stack
PushFront ==
    /\ exitCode = NotExited
    /\ status # "error"
    /\ Len(fs) < MaxFrames
    /\ \E f \in ErrorFrames : fs' = <<f>> \o fs
    /\ UNCHANGED <<status, err, lastOp, pre, heap, statics, MainThread,
                   parserVars, globalVars, cliVars>>

ShowPanicCause ==
    /\ exitCode = NotExited
    /\ \E reason \in Reasons :
       \E r \in {showPanicCause(reason, [Global |-> Global,
                                         stderr |-> stderr])} :
          /\ gCall' = CallOf("showPanicCause", <<reason>>, <<>>)
          /\ Global' = r.Global
          /\ stderr' = r.stderr
    /\ UNCHANGED <<env, osArgs, stdout, exitCode, jvmStage, jvmErrs,
                   interpVars, parserVars, MethArea, StringPool, MTable,
                   MethodSignatures, thrown, loader>>

ShowGoStackTrace ==
    /\ exitCode = NotExited
    /\ \E stackInfo \in Reasons, current \in HostStacks :
       \E r \in {showGoStackTrace(stackInfo, current,
                                  [Global |-> Global, stderr |-> stderr])} :
          /\ gCall' = CallOf("showGoStackTrace", <<stackInfo>>, <<>>)
          /\ Global' = r.Global
          /\ stderr' = r.stderr
          /\ status' = IF r.panic THEN "error" ELSE status
          /\ err' = IF r.panic THEN Error("panic: index out of range") ELSE err
    /\ UNCHANGED <<env, osArgs, stdout, exitCode, jvmStage, jvmErrs, fs,
                   lastOp, pre, heap, statics, MainThread, parserVars,
                   MethArea, StringPool, MTable, MethodSignatures, thrown,
                   loader>>

\* the thread has no frame yet, nothing has been shown; the host stack of an
\* earlier panic may have been saved in the globals
InitDiagnostics ==
    /\ NotRunning
    /\ NotParsing
    /\ NoGlobals
    /\ env = [k \in {javaEnvKeys[i] : i \in 1..3} |-> <<>>]
    /\ osArgs = <<>>
    /\ \E saved \in {<<>>} \cup HostStacks :
          Global = [InitGlobals EXCEPT !.ErrorGoStack = saved]
    /\ stdout = <<>>
    /\ stderr = <<>>
    /\ exitCode = NotExited
    /\ jvmStage = "idle"
    /\ jvmErrs = NoErrors

NextDiagnostics ==
    PushFront \/ showFrameStack \/ ShowPanicCause \/ ShowGoStackTrace

SpecDiagnostics == InitDiagnostics /\ [][NextDiagnostics]_vars

\* ------------------------------------------------------------------------
\* C40: the diagnostics are shown once
\* ------------------------------------------------------------------------

\* the messages of the lines of a log that belong to about
TextsOf(out, about) ==
    [i \in 1..Len(LinesOf(out, about)) |-> LinesOf(out, about)[i].text]

\* C40: each failure diagnostic is emitted at most once per run: lines of the
\* frame listing, of the panic cause and of the host stack are logged only
\* while none of their kind has been logged; showFrameStack logs the listing
\* (one entry per frame, the top frame first) on its first call with a
\* non-empty frame stack, showPanicCause and showGoStackTrace log on their
\* first call; a call of showFrameStack with an empty frame stack logs no
\* listing and does not mark the stack as shown
C40_ShownOnce ==
    [][/\ \A about \in {"showFrameStack", "showPanicCause", "showGoStackTrace"} :
             LinesOf(stderr', about) # LinesOf(stderr, about)
                => LinesOf(stderr, about) = <<>>
       /\ (showFrameStack /\ fs # <<>> /\ LinesOf(stderr, "showFrameStack") = <<>>)
             => TextsOf(stderr', "showFrameStack") = grabFrameStack(fs)
       /\ (showFrameStack /\ fs = <<>>)
             => /\ Global'.JvmFrameStackShown = Global.JvmFrameStackShown
                /\ LinesOf(stderr', "showFrameStack")
                       = LinesOf(stderr, "showFrameStack")
       /\ (ShowPanicCause /\ LinesOf(stderr, "showPanicCause") = <<>>)
             => Len(LinesOf(stderr', "showPanicCause")) = 1
       /\ (ShowGoStackTrace /\ LinesOf(stderr, "showGoStackTrace") = <<>>)
             => LinesOf(stderr', "showGoStackTrace") # <<>>]_vars

\* showFrameStack was called with no frame, then with one frame, and again
\* after the host stack was shown and a second frame was pushed: the
\* listing is still the one of the first frame
C40_Witness ==
    /\ Global.JvmFrameStackShown
    /\ Global.PanicCauseShown
    /\ Global.GoStackShown
    /\ gCall.key = <<"showFrameStack">>
    /\ Len(fs) = 2
    /\ TextsOf(stderr, "showFrameStack") = grabFrameStack(Tail(fs))
    /\ LinesOf(stderr, "noFrames") # <<>>
    /\ \E i, j \in DOMAIN stderr :
          /\ i < j
          /\ stderr[i].about = <<"showFrameStack">>
          /\ stderr[j].about = <<"showGoStackTrace">>

\* ------------------------------------------------------------------------
\* Stack traces: getStackTraces and StackTraceElement.of
\* ------------------------------------------------------------------------

\* a java/lang/StackTraceElement as instantiateClass returns it: the fields
\* getStackTraces writes, empty
StackTraceElement ==
    [Klass |-> "java/lang/StackTraceElement",
     FieldTable |-> [declaringClass |-> "", methodName |-> ""]]

\* the array slot no object has been put in
NilObject ==
    [Klass |-> "nil", FieldTable |-> [declaringClass |-> "", methodName |-> ""]]

\* the body of getStackTraces's loop: a StackTraceElement is instantiated and
\* its declaringClass and methodName are taken from the frame
ElementOf(frame) ==
    [StackTraceElement EXCEPT !.FieldTable.declaringClass = frame.ClName,
                              !.FieldTable.methodName = frame.MethName]

\* getStackTraces(fs): nil (<<>>) for an empty frame stack and when
\* instantiateClass fails (failAt is the frame at which it does, 0 for none);
\* else the object whose stackTrace field holds the elements
getStackTraces(frames, failAt) ==
    IF frames = <<>> THEN <<>>
    ELSE IF failAt \in 1..Len(frames) THEN <<>>
    ELSE <<[Klass |-> "java/lang/StackTraceElement",
            FieldTable |->
                [stackTrace |->
                    [Ftype |-> "[Ljava/lang/StackTraceElement;",
                     Fvalue |-> [i \in 1..Len(frames) |-> ElementOf(frames[i])]]]]>>

\* initStackTraceElement(ste, frm): its body is commented out, the element is
\* left as it is
initStackTraceElement(ste, frm) == ste

\* initStackTraceElements: rawSteArray[i] is read for the i-th frame of the
\* stack, whatever the length of the array; index is the greatest index read
initStackTraceElements(rawSteArray, jvmStack) ==
    IF Len(jvmStack) > Len(rawSteArray)
    THEN [array |-> rawSteArray, panic |-> TRUE, index |-> Len(rawSteArray)]
    ELSE [array |-> [i \in 1..Len(rawSteArray) |->
                        IF i <= Len(jvmStack)
                        THEN initStackTraceElement(rawSteArray[i], jvmStack[i])
                        ELSE rawSteArray[i]],
          panic |-> FALSE, index |-> Len(jvmStack) - 1]

\* of(throwable, depth): the array of depth elements (those that could be
\* instantiated), handed to initStackTraceElements; a throwable without a
\* frame stack ends the JVM
of(throwable, depth, instantiated) ==
    IF throwable.FieldTable.frameStackRef.Fvalue = <<>>
    THEN [ret |-> <<>>, exit |-> TRUE, panic |-> FALSE, index |-> -1]
    ELSE Only({[ret |-> IF r.panic THEN <<>> ELSE <<r.array>>, exit |-> FALSE,
                panic |-> r.panic, index |-> r.index] :
                  r \in {initStackTraceElements(
                             [i \in 1..depth |-> IF instantiated
                                                 THEN StackTraceElement
                                                 ELSE NilObject],
                             throwable.FieldTable.frameStackRef.Fvalue[1])}})

\* a Throwable whose frameStackRef is ref: <<>> for nil, else <<the stack>>
Throwable(ref) == [FieldTable |-> [frameStackRef |-> [Fvalue |-> ref]]]

\* getStackTraces is called on the thread's frame stack
GetStackTraces ==
    /\ exitCode = NotExited
    /\ status # "error"
    /\ \E failAt \in 0..Len(fs) :
          gCall' = CallOf("getStackTraces", <<>>, getStackTraces(fs, failAt))
    /\ UNCHANGED <<MethArea, StringPool, MTable, MethodSignatures, thrown,
                   loader, interpVars, parserVars, cliVars>>

\* the native method StackTraceElement.of is invoked for a Throwable that
\* holds the thread's frame stack, or none
Of ==
    /\ exitCode = NotExited
    /\ status # "error"
    /\ \E depth \in 0..MaxDepth, ref \in {<<>>, <<fs>>},
          instantiated \in BOOLEAN :
       \E r \in {of(Throwable(ref), depth, instantiated)} :
          /\ gCall' = CallOf("java/lang/StackTraceElement.of",
                             <<ref, depth, r.index>>, r.ret)
          /\ status' = IF r.panic THEN "error" ELSE status
          /\ err' = IF r.panic THEN Error("panic: index out of range") ELSE err
          /\ IF r.exit THEN Exit(JVM_EXCEPTION)
             ELSE UNCHANGED <<exitCode, jvmStage>>
    /\ UNCHANGED <<fs, lastOp, pre, heap, statics, MainThread, env, osArgs,
                   Global, stdout, stderr, jvmErrs, MethArea, StringPool,
                   MTable, MethodSignatures, thrown, loader, parserVars>>

InitStackTrace ==
    /\ NotRunning
    /\ NotParsing
    /\ NoGlobals
    /\ NoCli

NextStackTrace == PushFront \/ GetStackTraces \/ Of

SpecStackTrace == InitStackTrace /\ [][NextStackTrace]_vars

\* ------------------------------------------------------------------------
\* C31: the stack trace of the frame stack
\* ------------------------------------------------------------------------

\* the PCs of the frames
FramePCs == {f.PC : f \in ErrorFrames}

\* the element records the frame: its class name and method name are the
\* frame's, and the element tells the frame's PC from every other PC
Records(ste, frame) ==
    /\ ste.FieldTable.declaringClass = frame.ClName
    /\ ste.FieldTable.methodName = frame.MethName
    /\ \A pc \in FramePCs \ {frame.PC} :
          ste # ElementOf([frame EXCEPT !.PC = pc])

\* C31: after getStackTraces the trace holds one StackTraceElement per frame
\* of the frame stack, in frame-stack order from the top frame down, each
\* recording its frame's class name, method name and PC; for an empty frame
\* stack there is no trace
C31_TraceRecordsFrames ==
    gCall.key = <<"getStackTraces">> =>
        IF fs = <<>> THEN gCall.ret = <<>>
        ELSE /\ gCall.ret # <<>>
             /\ \A trace \in {gCall.ret[1].FieldTable.stackTrace.Fvalue} :
                   /\ Len(trace) = Len(fs)
                   /\ \A i \in 1..Len(fs) : Records(trace[i], fs[i])

\* ------------------------------------------------------------------------
\* C39: StackTraceElement.of
\* ------------------------------------------------------------------------

\* C39: StackTraceElement.of(throwable, depth), for a throwable that holds a
\* frame stack, returns an array of exactly depth elements and reads no
\* array index outside [0, depth)
C39_OfStaysInArray ==
    (gCall.key = <<"java/lang/StackTraceElement.of">> /\ gCall.args[1] # <<>>)
        => /\ gCall.ret # <<>>
           /\ Len(gCall.ret[1]) = gCall.args[2]
           /\ gCall.args[3] < gCall.args[2]

\* ------------------------------------------------------------------------
\* C35: the order of the stages of parse
\* ------------------------------------------------------------------------

\* the functions parse calls, in the order of its code
StageOrder ==
    <<"parseMagicNumber", "parseJavaVersionNumber", "getConstantPoolCount",
      "parseConstantPool", "parseAccessFlags", "parseClassName",
      "parseSuperClassName", "parseInterfaceCount", "parseInterfaces",
      "parseFieldCount">>

\* the same for a class without interfaces
StageOrderNoInterfaces == SubSeq(StageOrder, 1, 8) \o <<StageOrder[10]>>

\* the error the function name returns, called as parse calls it
StageError(name) ==
    CASE name = "parseMagicNumber" -> parseMagicNumber(rawBytes)
      [] name = "parseJavaVersionNumber" ->
             parseJavaVersionNumber(rawBytes, pClass).err
      [] name = "getConstantPoolCount" ->
             getConstantPoolCount(rawBytes, pClass).err
      [] name = "parseConstantPool" -> parseConstantPool(rawBytes, pClass).err
      [] name = "parseAccessFlags" -> parseAccessFlags(rawBytes, pos, pClass).err
      [] name = "parseClassName" -> parseClassName(rawBytes, pos, pClass).err
      [] name = "parseSuperClassName" ->
             parseSuperClassName(rawBytes, pos, pClass).err
      [] name = "parseInterfaceCount" ->
             parseInterfaceCount(rawBytes, pos, pClass).err
      [] name = "parseInterfaces" -> parseInterfaces(rawBytes, pos, pClass).err
      [] name = "parseFieldCount" -> parseFieldCount(rawBytes, pos, pClass).err

\* C35: parse calls its functions in the fixed order magic, version,
\* constant-pool count, constant pool, access flags, this_class, super_class,
\* interface count, interfaces (only when the count is > 0), field count; a
\* function is called only while no earlier one has failed, the error parse
\* returns is the error of the function that failed, and parse returns nil
\* only when every function has been called and has succeeded
C35_StageOrder ==
    [][/\ \E order \in {StageOrder, StageOrderNoInterfaces} :
             /\ Len(calls') <= Len(order)
             /\ calls' = SubSeq(order, 1, Len(calls'))
       /\ (Len(calls') >= 9 /\ Len(calls) = 8)
             => (calls'[9] = "parseInterfaces" <=> pClass.interfaceCount > 0)
       /\ calls' # calls
             => /\ parseErr = NilError
                /\ parseErr' = StageError(calls'[Len(calls')])
       /\ parseErr' # NilError => parseStage' = "returned"
       /\ (parseStage' = "returned" /\ parseErr' = NilError)
             => calls' \in {StageOrder, StageOrderNoInterfaces}]_vars

\* parse has returned nil for a class with interfaces, parseInterfaces called
C35_Witness ==
    /\ parseStage = "returned"
    /\ parseErr = NilError
    /\ calls = StageOrder
    /\ pClass.interfaceCount > 0

\* ------------------------------------------------------------------------
\* Longs in the local variables: LSTORE, LSTORE_0..3, LLOAD, LLOAD_0..3 on the
\* frames of TestLstore, TestLstore0..3, TestLload, TestLload0..3
\* ------------------------------------------------------------------------

\* the greatest index of a local variable the bytecode names
MaxLocal == 3

\* a store of a long followed by a load of a long, by index byte or by opcode
StoreLoadCode ==
    {<<opcodes.LSTORE, n, opcodes.LLOAD, m>> : n, m \in 0..MaxLocal}
    \cup {<<st, ld>> : st \in LongStores \ {opcodes.LSTORE},
                       ld \in LongLoads \ {opcodes.LLOAD}}

\* the locals of the tests: zeroes, or values put there for the load
LocalsOfTests ==
    {<<J(0), J(0)>>, <<J(0), J(0), J(0), J(0)>>,
     <<J(305419896), J(305419896), J(7), F(2)>>, TestLocals}

InitLocals ==
    /\ \E meth \in StoreLoadCode, stk \in InitialStacks,
          locals \in LocalsOfTests :
          fs = <<[CreateFrame(meth, MaxStack) EXCEPT !.OpStack = stk,
                                                     !.TOS = DepthOf(stk) - 1,
                                                     !.Locals = locals]>>
    /\ status = "running"
    /\ err = NoError
    /\ lastOp = -1
    /\ pre = fs
    /\ heap = <<>>
    /\ statics = <<>>
    /\ MainThread = CreateThread
    /\ NotParsing
    /\ NoGlobals
    /\ NoCli

SpecLocals == InitLocals /\ [][Next]_vars

\* ------------------------------------------------------------------------
\* C37: a long occupies two local variables
\* ------------------------------------------------------------------------

\* the two top slots of the frame hold a long: the same int64 twice
LongOnTop(f) ==
    /\ f.TOS >= 1
    /\ At(f.OpStack, f.TOS).t = "int64"
    /\ At(f.OpStack, f.TOS - 1) = At(f.OpStack, f.TOS)

\* the frame is about to store a long into the locals the next instruction
\* loads a long from
AtStoreLoad(f) ==
    /\ f.PC < Len(f.Meth)
    /\ At(f.Meth, f.PC) \in LongStores
    /\ \E next \in {f.PC + OperandBytes(At(f.Meth, f.PC)) + 1} :
          /\ next < Len(f.Meth)
          /\ At(f.Meth, next) \in LongLoads
          /\ LocalIndex([f EXCEPT !.PC = next], At(f.Meth, next))
                = LocalIndex(f, At(f.Meth, f.PC))
    /\ LocalIndex(f, At(f.Meth, f.PC)) + 1 < Len(f.Locals)

\* the frame after its next two instructions
AfterTwo(frames) ==
    Only({Exec(r.fs, At(r.fs[1].Meth, r.fs[1].PC)).fs[1] :
             r \in {Exec(frames, At(frames[1].Meth, frames[1].PC))}})

\* C37: a long occupies two local variables. LSTORE n and LSTORE_n pop the
\* two slots of the long on top of the stack and write its value into
\* locals[n] and locals[n+1]; LLOAD n and LLOAD_n push locals[n] in two slots
\* and leave the locals as they are; LSTORE n followed by LLOAD n gives back
\* the operand stack as it was before the LSTORE
C37_LongLocals ==
    /\ [][/\ (lastOp' \in LongStores /\ status' = "running" /\ LongOnTop(fs[1]))
                => \A n \in {LocalIndex(fs[1], lastOp')} :
                      /\ fs'[1].TOS = fs[1].TOS - 2
                      /\ n + 1 < Len(fs'[1].Locals)
                      /\ At(fs'[1].Locals, n) = At(fs[1].OpStack, fs[1].TOS)
                      /\ At(fs'[1].Locals, n + 1) = At(fs[1].OpStack, fs[1].TOS)
                      /\ \A i \in 0..(Len(fs[1].Locals) - 1) \ {n, n + 1} :
                            At(fs'[1].Locals, i) = At(fs[1].Locals, i)
          /\ (lastOp' \in LongLoads /\ status' = "running"
                 /\ fs[1].TOS + 2 < MaxStack)
                => \A n \in {LocalIndex(fs[1], lastOp')} :
                      /\ fs'[1].TOS = fs[1].TOS + 2
                      /\ At(fs'[1].OpStack, fs'[1].TOS) = At(fs[1].Locals, n)
                      /\ At(fs'[1].OpStack, fs'[1].TOS - 1) = At(fs[1].Locals, n)
                      /\ fs'[1].Locals = fs[1].Locals]_vars
    /\ [](status = "running" /\ AtStoreLoad(fs[1]) /\ LongOnTop(fs[1])
             => \A g \in {AfterTwo(fs)} :
                   /\ g.TOS = fs[1].TOS
                   /\ g.OpStack = fs[1].OpStack)

\* LSTORE 2 has stored the long 3 of a full stack and LLOAD 2 has pushed it
\* again
C37_Witness ==
    /\ lastOp = opcodes.LLOAD
    /\ status = "running"
    /\ fs[1].Meth = <<opcodes.LSTORE, 2, opcodes.LLOAD, 2>>
    /\ fs[1].TOS = MaxStack - 1
    /\ At(fs[1].OpStack, fs[1].TOS) = J(3)
    /\ At(fs[1].Locals, 2) = J(3)
    /\ At(fs[1].Locals, 3) = J(3)

\* ------------------------------------------------------------------------
\* Tracing: the frames of TestPop, TestPopWithTracing, TestPop2 and
\* TestPop2WithTrace, run with MainThread.Trace on and off
\* ------------------------------------------------------------------------

\* the operand stacks of the POP tests: 34, 21, then 0 or 10
PopStacks ==
    {[i \in 1..MaxStack |-> IF i > 3 THEN Nil ELSE <<J(34), J(21), top>>[i]] :
        top \in {J(0), J(10)}}

InitTrace ==
    /\ \E meth \in {<<opcodes.POP>>, <<opcodes.POP2>>} \cup Late,
          stk \in InitialStacks \cup PopStacks,
          callers \in {<<>>, <<CallerFrame>>} :
          fs = <<[CreateFrame(meth, MaxStack) EXCEPT !.OpStack = stk,
                                                     !.TOS = DepthOf(stk) - 1]>>
                  \o callers
    /\ status = "running"
    /\ err = NoError
    /\ lastOp = -1
    /\ pre = fs
    /\ heap = <<>>
    /\ statics = <<>>
    /\ MainThread \in {CreateThread, [CreateThread EXCEPT !.Trace = TRUE]}
    /\ NotParsing
    /\ NoGlobals
    /\ NoCli

SpecTrace == InitTrace /\ [][Next]_vars

\* ------------------------------------------------------------------------
\* C38: tracing does not interfere with execution
\* ------------------------------------------------------------------------

MaxQueryErrors == 1

\* Prolog terms: an unbound variable, an atom, the integer that carries the
\* address of a Klass, the integer that carries the address of its methods
Var == <<>>
NewAtom(name) == <<name>>
klassToIntegerPointer(class) == <<"*Klass", class.Data.Name>>
methodsArrayToIntegerPointer(class) == <<"*[]Method", class.Data.Name>>

\* the classes handed to the verifier; Superclass is the string the string
\* pool holds at Data.SuperclassIndex
Klasses ==
    {[Loader |-> "app",
      Data |-> [Name |-> "Main", Superclass |-> "java/lang/Object"]],
     [Loader |-> "bootstrap",
      Data |-> [Name |-> "java/lang/Object", Superclass |-> ""]]}

Terms ==
    {Var, NewAtom("Main"), NewAtom("bootstrap")}
    \cup {klassToIntegerPointer(k) : k \in Klasses}
    \cup {methodsArrayToIntegerPointer(k) : k \in Klasses}

\* the outcome of a predicate: it succeeds, it fails, or the Go code panics
Bool(ok) == IF ok THEN "true" ELSE "false"

\* engine.Unify: two terms unify if one is unbound or they are the same
Unify(t1, t2) == Bool(t1 = Var \/ t2 = Var \/ t1 = t2)

\* getClass: the Klass behind an integer term, nil (<<>>) for any other term;
\* ctx is the class being verified, the only Klass whose address is handed out
getClass(term, ctx) ==
    IF term = klassToIntegerPointer(ctx.class) THEN <<ctx.class>> ELSE <<>>

\* the predicates registered by VerifyClass, in the order of registration,
\* with the number of arguments of each
Registered ==
    << <<"classClassName", 2>>, <<"classIsInterface", 1>>,
       <<"classIsNotFinal", 1>>, <<"classSuperClassName", 2>>,
       <<"classInterfaces", 2>>, <<"classMethods", 2>>,
       <<"classAttributes", 2>>, <<"classDefiningLoader", 2>>,
       <<"isBootstrapLoader", 1>>, <<"loadedClass", 3>>,
       <<"methodName", 2>>, <<"methodAccessFlags", 2>>,
       <<"methodDescriptor", 3>>, <<"methodAttributes", 2>>,
       <<"isInit", 1>>, <<"isNotInit", 1>>, <<"isNotFinal", 2>>,
       <<"isFinal", 2>>, <<"isStatic", 2>>, <<"isNotStatic", 2>>,
       <<"isPrivate", 2>>, <<"isNotPrivate", 2>>, <<"isProtected", 3>>,
       <<"isNotProtected", 3>>, <<"parseFieldDescriptor", 2>>,
       <<"parseMethodDescriptor", 3>>, <<"parseCodeAttribute", 7>>,
       <<"samePackageName", 2>>, <<"differentPackageName", 2>> >>

classClassName(ctx, args) == Unify(args[2], NewAtom(ctx.class.Data.Name))

classIsNotFinal(ctx, args) == Unify(args[1], args[1])

classSuperClassName(ctx, args) ==
    LET data == getClass(args[1], ctx)
    IN IF data = <<>> THEN "panic"
       ELSE IF data[1].Data.Superclass = "" THEN Bool(FALSE)
       ELSE Unify(args[2], NewAtom(data[1].Data.Superclass))

classMethods(ctx, args) ==
    LET class == getClass(args[1], ctx)
    IN IF class = <<>> THEN "panic"
       ELSE Unify(args[2], methodsArrayToIntegerPointer(class[1]))

classDefiningLoader(ctx, args) ==
    LET classData == getClass(args[1], ctx)
    IN IF classData = <<>> THEN "panic"
       ELSE Unify(args[2], NewAtom(classData[1].Loader))

isBootstrapLoader(ctx, args) == Unify(args[1], args[1])

\* the outcome of the predicate registered under name; loadedClass, which
\* loads classes, is an action of its own
Predicate(name, ctx, args) ==
    CASE name = "classClassName" -> classClassName(ctx, args)
      [] name = "classIsNotFinal" -> classIsNotFinal(ctx, args)
      [] name = "classSuperClassName" -> classSuperClassName(ctx, args)
      [] name = "classMethods" -> classMethods(ctx, args)
      [] name = "classDefiningLoader" -> classDefiningLoader(ctx, args)
      [] name = "isBootstrapLoader" -> isBootstrapLoader(ctx, args)
      [] OTHER -> Bool(TRUE)

\* VerifyClass, were it to hand the error of the query to its caller
VerifyClass_Rejects(class, i, solsErr) ==
    [ret |-> solsErr, printed |-> solsErr]

\* VerifyClass: the predicates are registered and classIsTypeSafe is queried;
\* solsErr is sols.Err(), <<>> for nil; an error is printed and nil returned
VerifyClass(class, i, solsErr) ==
    IF solsErr # <<>> THEN [ret |-> <<>>, printed |-> solsErr]
    ELSE [ret |-> <<>>, printed |-> <<>>]

\* the errors a query can end with: none, or one of the engine's
QueryErrors == {<<>>, <<"error(existence_error(procedure, classIsTypeSafe/1))">>}

\* some code calls VerifyClass
VerifyClassCall ==
    /\ \E class \in Klasses, i \in {"bootstrap", "app"}, solsErr \in QueryErrors :
          /\ solsErr # <<>> => Len(stderr) < MaxQueryErrors
          /\ \E r \in {VerifyClass(class, i, solsErr)} :
                /\ gCall' = CallOf("VerifyClass",
                                   <<klassToIntegerPointer(class), <<i>>, solsErr>>,
                                   r.ret)
                /\ stderr' = IF r.printed = <<>> THEN stderr
                             ELSE Log(stderr, r.printed[1], "println")
    /\ UNCHANGED <<interpVars, parserVars, MethArea, StringPool, MTable,
                   MethodSignatures, thrown, loader, env, osArgs, Global,
                   stdout, exitCode, jvmStage, jvmErrs>>

\* the interpreter calls a registered predicate while it solves the query for
\* class; the arguments after the second are unbound
PredicateCall ==
    /\ \E n \in 1..Len(Registered), class \in Klasses, t1 \in Terms :
          /\ Registered[n][1] # "loadedClass"
          /\ \E t2 \in IF Registered[n][2] > 1 THEN Terms ELSE {Var} :
             \E args \in {SubSeq(<<t1, t2, Var, Var, Var, Var, Var>>, 1,
                                 Registered[n][2])} :
                gCall' = CallOf(Registered[n][1], args,
                                <<Predicate(Registered[n][1],
                                            [class |-> class], args)>>)
    /\ UNCHANGED <<interpVars, parserVars, MethArea, StringPool, MTable,
                   MethodSignatures, thrown, loader, cliVars>>

InitVerify ==
    /\ NotRunning
    /\ NotParsing
    /\ NoGlobals
    /\ NoCli

NextVerify == VerifyClassCall \/ PredicateCall

SpecVerify == InitVerify /\ [][NextVerify]_vars

\* ------------------------------------------------------------------------
\* C34: the verifier rejects no class
\* ------------------------------------------------------------------------

\* the predicates whose outcome depends on their arguments or on the class
Conditional ==
    {"classClassName", "classSuperClassName", "classMethods",
     "classDefiningLoader", "loadedClass"}

\* the names of the registered predicates
RegisteredNames == {Registered[n][1] : n \in 1..Len(Registered)}

\* C34: VerifyClass returns nil for every class and loader, whether the
\* query ended with an error or not, and every registered predicate other
\* than classClassName, classSuperClassName, classMethods,
\* classDefiningLoader and loadedClass succeeds whatever its arguments
C34_VerifyNeverRejects ==
    /\ gCall.key = <<"VerifyClass">> => gCall.ret = <<>>
    /\ \A name \in RegisteredNames \ Conditional :
          gCall.key = <<name>> => gCall.ret = <<"true">>

\* VerifyClass has been called, its query ended with an error, which was
\* printed
C34_Witness ==
    /\ gCall.key = <<"VerifyClass">>
    /\ gCall.args[3] # <<>>
    /\ Len(stderr) > 0
    /\ stderr[Len(stderr)].about = <<"println">>
    /\ gCall.ret = <<>>

\* ------------------------------------------------------------------------
\* The method area: inserts and status transitions
\* ------------------------------------------------------------------------

\* the lifecycle of a class, in order; Errored stands beside it
Lifecycle == <<"Parsed", "Linked", "Prepared", "Initialized">>

\* the place of a status in the lifecycle, 0 for a status outside it
RankOf(st) ==
    IF \E i \in 1..Len(Lifecycle) : Lifecycle[i] = st
    THEN CHOOSE i \in 1..Len(Lifecycle) : Lifecycle[i] = st
    ELSE 0

\* the names under which classes are inserted
InsertedNames == {"java/lang/String", "java/lang/Object", "Main"}

\* the classes handed to MethAreaInsert: the loader hands over a class it has
\* parsed, TestInstanceofString a class with Status 'X'
InsertedKlasses == {[status |-> "Parsed"], [status |-> "X"]}

\* MethAreaInsert: the class is stored under the name as it is handed over;
\* a name present with a status other than Errored is left alone and the
\* insert rejected
MethAreaInsert ==
    /\ \E name \in InsertedNames, klass \in InsertedKlasses :
          IF name \in DOMAIN MethArea /\ MethArea[name].status # "Errored"
          THEN /\ gCall' = CallOf("MethAreaInsert", <<name, klass.status>>,
                                  <<"LinkageError">>)
               /\ UNCHANGED MethArea
          ELSE /\ gCall' = CallOf("MethAreaInsert", <<name, klass.status>>, <<>>)
               /\ MethArea' = WithKlass(MethArea, name, klass)
    /\ UNCHANGED <<interpVars, parserVars, StringPool, MTable,
                   MethodSignatures, thrown, loader, cliVars>>

\* transition(name, newStatus): a class in the lifecycle moves to a later
\* status of it or to Errored; any other move fails fatally
Transition ==
    /\ \E name \in DOMAIN MethArea,
          newStatus \in {Lifecycle[i] : i \in 1..Len(Lifecycle)} \cup {"Errored"} :
          IF \/ newStatus = "Errored"
             \/ RankOf(MethArea[name].status) < RankOf(newStatus)
          THEN /\ MethArea' = [MethArea EXCEPT ![name].status = newStatus]
               /\ gCall' = CallOf("transition", <<name, newStatus>>, <<>>)
          ELSE /\ gCall' = CallOf("transition", <<name, newStatus>>, <<"fatal">>)
               /\ UNCHANGED MethArea
    /\ UNCHANGED <<interpVars, parserVars, StringPool, MTable,
                   MethodSignatures, thrown, loader, cliVars>>

InitMethArea ==
    /\ NotRunning
    /\ NotParsing
    /\ NoGlobals
    /\ NoCli

NextMethArea == MethAreaInsert \/ Transition

SpecMethArea == InitMethArea /\ [][NextMethArea]_vars

\* ------------------------------------------------------------------------
\* C33: the status of a class in the method area
\* ------------------------------------------------------------------------

\* C33: every class in the method area has one of the statuses Parsed,
\* Linked, Prepared, Initialized, Errored
C33_StatusInLifecycle ==
    \A name \in DOMAIN MethArea :
        MethArea[name].status \in
            {Lifecycle[i] : i \in 1..Len(Lifecycle)} \cup {"Errored"}

\* ------------------------------------------------------------------------
\* The class loader: load(name) over classes that refer to each other
\* ------------------------------------------------------------------------

\* ------------------------------------------------------------------------
\* Loads asked for by the verifier's predicate loadedClass
\* ------------------------------------------------------------------------

\* one step of a load under way
LoadStep ==
    /\ loader.pending # <<>>
    /\ \E r \in {LoadOne(MethArea, loader)} :
          /\ r.loader.parsed # loader.parsed => Len(loader.parsed) < MaxParsed
          /\ MethArea' = r.area
          /\ loader' = r.loader
    /\ UNCHANGED <<interpVars, parserVars, StringPool, MTable,
                   MethodSignatures, thrown, gCall, cliVars>>

\* the ClassDefinition terms loadedClass is called with
Definitions == {Var, klassToIntegerPointer([Data |-> [Name |-> "A"]])}

\* the predicate loadedClass up to its call of
\* LoadClassFromNameOnlyToClassLoader: an empty name and a class found in the
\* method area are answered at once, any other name is loaded
loadedClass ==
    /\ loader.pending = <<>>
    /\ gCall.ret # <<"loading">>
    /\ \E term \in {""} \cup LoadNames, ClassDefinition \in Definitions :
          \E fetch \in {MethAreaFetch(MethArea, term)} :
             CASE term = "" ->
                     /\ gCall' = CallOf("loadedClass", <<<<term>>, ClassDefinition>>,
                                        <<Bool(TRUE)>>)
                     /\ UNCHANGED loader
               [] term # "" /\ fetch # <<>> ->
                     /\ gCall' = CallOf("loadedClass", <<<<term>>, ClassDefinition>>,
                                        <<Unify(ClassDefinition,
                                                klassToIntegerPointer(
                                                    [Data |-> [Name |-> term]]))>>)
                     /\ UNCHANGED loader
               [] OTHER ->
                     /\ gCall' = CallOf("loadedClass", <<<<term>>, ClassDefinition>>,
                                        <<"loading">>)
                     /\ loader' = [loader EXCEPT
                                      !.pending = << <<"load", term>> >>,
                                      !.err = ""]
    /\ UNCHANGED <<interpVars, parserVars, MethArea, StringPool, MTable,
                   MethodSignatures, thrown, cliVars>>

\* the predicate loadedClass after LoadClassFromNameOnlyToClassLoader has
\* returned: an error and a class still missing succeed, a class found is
\* unified with ClassDefinition
loadedClassReturns ==
    /\ gCall.key = <<"loadedClass">>
    /\ gCall.ret = <<"loading">>
    /\ loader.pending = <<>>
    /\ \E term \in {gCall.args[1][1]}, ClassDefinition \in {gCall.args[2]} :
          gCall' = [gCall EXCEPT !.ret =
                       IF loader.err # "" THEN <<Unify(ClassDefinition, ClassDefinition)>>
                       ELSE IF MethAreaFetch(MethArea, term) = <<>> THEN <<Bool(TRUE)>>
                       ELSE <<Unify(ClassDefinition,
                                    klassToIntegerPointer([Data |-> [Name |-> term]]))>>]
    /\ UNCHANGED <<interpVars, parserVars, MethArea, StringPool, MTable,
                   MethodSignatures, thrown, loader, cliVars>>

InitLoad ==
    /\ NotRunning
    /\ NotParsing
    /\ NoGlobals
    /\ NoCli

NextLoad == loadedClass \/ LoadStep \/ loadedClassReturns

SpecLoad == InitLoad /\ [][NextLoad]_vars

\* a load under way is carried on: the call of load(name) runs to its end
FairLoad == SpecLoad /\ WF_vars(LoadStep)

\* ------------------------------------------------------------------------
\* C32: loading is idempotent and finishes
\* ------------------------------------------------------------------------

\* no class name has been parsed twice
ParsedOnce ==
    \A i \in 1..Len(loader.parsed), j \in 1..Len(loader.parsed) :
        loader.parsed[i] = loader.parsed[j] => i = j

\* C32: over any sequence of load requests, for classes that refer to each
\* other too, every class name is parsed and inserted at most once, a class
\* present in the method area is not parsed again, and every load that has
\* begun finishes
C32_LoadOnceAndFinish ==
    /\ []ParsedOnce
    /\ [][\A n \in DOMAIN MethArea :
             /\ loader'.parsed = loader.parsed \/ loader'.parsed[Len(loader'.parsed)] # n
             /\ n \in DOMAIN MethArea']_vars
    /\ (loader.pending # <<>>) ~> (loader.pending = <<>>)

\* A and B, which refer to each other, have been loaded and linked by one
\* request, and a later request for A has been answered from the method area
C32_Witness ==
    /\ loader.pending = <<>>
    /\ \E i \in 1..Len(loader.parsed) : loader.parsed[i] = "A"
    /\ \E i \in 1..Len(loader.parsed) : loader.parsed[i] = "B"
    /\ "A" \in DOMAIN MethArea /\ MethArea["A"].status = "Linked"
    /\ "B" \in DOMAIN MethArea /\ MethArea["B"].status = "Linked"
    /\ gCall.key = <<"loadedClass">>
    /\ gCall.args[1] = <<"A">>
    /\ gCall.ret = <<"true">>

\* ------------------------------------------------------------------------
\* C36: the order of the startup
\* ------------------------------------------------------------------------

\* the place of a class among the classes parsed, 0 if it was not parsed
ParsedAt(name) ==
    IF \E i \in 1..Len(loader.parsed) : loader.parsed[i] = name
    THEN CHOOSE i \in 1..Len(loader.parsed) : loader.parsed[i] = name
    ELSE 0

BaseClassNames == {BaseClasses[i] : i \in 1..Len(BaseClasses)}

\* the order of the startup as the state shows it
StartupOrdered ==
    /\ jvmStage = "HandleCli" =>
          DOMAIN MethArea = {} /\ loader = NoLoads /\ gCall = NoCall
    /\ (DOMAIN MethArea # {} \/ loader.parsed # <<>>) =>
          /\ jvmErrs.cli = ""
          /\ Global.startingClass # <<>>
          /\ Global.ExitNow # TRUE
    /\ loader.main # "" =>
          /\ loader.main \in DOMAIN MethArea
          /\ \A b \in BaseClassNames :
                /\ b \in DOMAIN MethArea
                /\ 0 < ParsedAt(b)
                /\ ParsedAt(b) < ParsedAt(loader.main)
    /\ \A i \in 1..Len(loader.parsed) :
          loader.parsed[i] \notin BaseClassNames \cup {loader.main} =>
              /\ loader.main # ""
              /\ ParsedAt(loader.main) < i
    /\ gCall.key = <<"StartExec">> =>
          /\ loader.main # ""
          /\ loader.pending = <<>>
          /\ jvmErrs.load = ""
          /\ \/ loader.err # ""
             \/ /\ MethArea[loader.main].status = "Linked"
                /\ \A i \in 1..Len(ClassRefs[loader.main]) :
                      ClassRefs[loader.main][i] \in DOMAIN MethArea

\* C36: in a run of JVMrun the command line is handled before any class is
\* loaded, the class loader is initialised and the base classes are loaded
\* before the starting class, the starting class before the classes it
\* refers to, the execution starts after all of these, and once an exit has
\* been requested nothing is loaded or executed
C36_StartupOrder ==
    /\ []StartupOrdered
    /\ [][exitCode # NotExited =>
             UNCHANGED <<MethArea, loader, gCall, interpVars>>]_vars
    /\ [][/\ (DOMAIN MethArea' # DOMAIN MethArea) => jvmStage # "HandleCli"
          /\ (gCall' # gCall) => jvmStage = "StartExec"]_vars

\* a run to its end: the base classes, then A, then B which A refers to,
\* were loaded and A was executed
C36_Witness ==
    /\ jvmStage = "exited"
    /\ exitCode = OK
    /\ gCall.key = <<"StartExec">>
    /\ loader.main = "A"
    /\ ParsedAt("java/lang/Throwable") = 3
    /\ ParsedAt("A") = 4
    /\ ParsedAt("B") = 5
    /\ MethArea["B"].status = "Linked"

====
